---- MODULE Spec2Model ----
(***************************************************************************)
(* The event server: the in-memory event cache (server/lib/events.js), the *)
(* webhook / admin-ping change notification path and the normalized events *)
(* routes (server/index.js), and the streaming chat endpoint with its      *)
(* language-model bridge (server/lib/llm.js).                              *)
(*                                                                         *)
(* Node runs every handler to its next await without interruption, so an   *)
(* action is one such run: a synchronous handler is one action, an async   *)
(* one is one action per stretch between awaits.                           *)
(***************************************************************************)
EXTENDS Integers, Sequences, FiniteSets, TLC

VARIABLES
  now,          \* Date.now(), in milliseconds
  ticks,        \* how many times the clock has advanced
  listCache,    \* events.js listCache: [ts, data]
  detailCache,  \* events.js detailCache: Map id -> [ts, data]
  recent,       \* index.js recent: Map key -> last-seen time
  emitted,      \* number of event-updated broadcasts sent by io.emit
  resp,         \* the last response of /webhooks/wp or /admin/ping
  hookLog,      \* per ledger key, the answers given to authentic deliveries
  unannounced,  \* the upstream content changed and no delivery was handled since
  calls,        \* the GET /api/events and GET /api/events/:id requests in flight
  streamChatFn, \* index.js streamChatFn: which bridge the server loaded, if any
  apiKey,       \* whether OPENAI_API_KEY is set
  chat,         \* the POST /ai/chat request: its response and its streamChat call
  ask,          \* a call of askLLM
  aiAsk,        \* the POST /ai/ask request: its body and its response
  nl,           \* the assistant's work on one message: its reading and its answer
  client        \* web/src/App.jsx: the page in one browser

dataVars == <<now, ticks, listCache, detailCache, recent, emitted, resp, hookLog,
              unannounced, calls>>

chatVars == <<streamChatFn, apiKey, chat, ask, aiAsk, nl, client>>

vars == <<dataVars, chatVars>>

----------------------------------------------------------------------------
(* Bounds of the model *)

MaxTicks == 3
MaxEmit == 2
MaxDeliveries == 3
StartTime == 1000000

\* The clock advances by one of these amounts (milliseconds): around the two
\* TTLs, and around the de-dupe window.
Delays == {1000, 59000, 240000}
HookDelays == {1000, 3000}

\* The requests that can be in flight at the same time.
Reqs == {"r1", "r2"}

\* Event ids asked for by GET /api/events/:id.
Ids == {"40551", "7"}

----------------------------------------------------------------------------
(* Values *)

Null == [null |-> TRUE]

Digit == <<"0", "1", "2", "3", "4", "5", "6", "7", "8", "9">>
RECURSIVE Str(_)
\* The decimal writing of a natural number.
Str(n) == IF n < 10 THEN <<Digit[n + 1]>>
          ELSE Str(n \div 10) \o <<Digit[(n % 10) + 1]>>

\* The values a field of a parsed JSON body can hold.
JsUndef == [t |-> "undefined", n |-> 0, s |-> <<>>]
JsNull == [t |-> "null", n |-> 0, s |-> <<>>]
JsNum(n) == [t |-> "number", n |-> n, s |-> <<>>]
JsStr(s) == [t |-> "string", n |-> 0, s |-> s]
JsObj == [t |-> "object", n |-> 0, s |-> <<>>]
JsArr == [t |-> "array", n |-> 0, s |-> <<>>]

\* ToBoolean
Truthy(v) ==
  \/ v.t \in {"object", "array"}
  \/ v.t = "number" /\ v.n # 0
  \/ v.t = "string" /\ v.s # <<>>

\* a || b
Or(a, b) == IF Truthy(a) THEN a ELSE b

\* String(v); the array is the empty one.
String(v) ==
  CASE v.t = "string" -> v.s
    [] v.t = "number" -> Str(v.n)
    [] v.t = "undefined" -> <<"u", "n", "d", "e", "f", "i", "n", "e", "d">>
    [] v.t = "null" -> <<"n", "u", "l", "l">>
    [] v.t = "object" -> <<"[", "o", "b", "j", "e", "c", "t", " ", "O", "b", "j", "e", "c", "t", "]">>
    [] v.t = "array" -> <<>>

\* What is known of a response body obtained from upstream: old = the upstream
\* content changed after it was produced; pre = the cache was invalidated after
\* it was produced; form = "raw" as the upstream sent it, "mapped" as the
\* {id, title} rows findEvents makes of it, "record" as the normalized event
\* getEventById makes of it.
Data == [old : BOOLEAN, pre : BOOLEAN, form : {"raw", "mapped", "record"}]
FreshData == [old |-> FALSE, pre |-> FALSE, form |-> "raw"]

\* findEvents: arr.map(e => ({ id: String(e.id), title: ... }))
Mapped(d) == [d EXCEPT !.form = "mapped"]
\* getEventById: out = mapFromWpPost(data), or the record built from the
\* legacy shape.
Normalized(d) == [d EXCEPT !.form = "record"]

MarkOld(d) == IF d = Null THEN Null ELSE [d EXCEPT !.old = TRUE]
MarkPre(d) == IF d = Null THEN Null ELSE [d EXCEPT !.pre = TRUE]

MapSet(m, k, v) == [x \in (DOMAIN m) \cup {k} |-> IF x = k THEN v ELSE m[x]]
EmptyMap == [x \in {} |-> 0]

----------------------------------------------------------------------------
(* server/lib/events.js *)

TTL_LIST_MS == 60 * 1000
TTL_DETAIL_MS == 5 * 60 * 1000

\* The same endpoints with the plugin's own route tried first.
candidatesOwnFirst == <<"example/v1/events", "wp/v2/posts", "wp/v2/event">>
\* The three detail endpoints, in the order getEventById tries them.
candidates == <<"wp/v2/posts", "wp/v2/event", "example/v1/events">>

\* The same test with <= for <.
ListFreshLe == listCache.data # Null /\ now - listCache.ts <= TTL_LIST_MS
\* findEvents: listCache.data && now() - listCache.ts < TTL_LIST_MS
ListFresh == listCache.data # Null /\ now - listCache.ts < TTL_LIST_MS

\* getEventById: c && now() - c.ts < TTL_DETAIL_MS
DetailFresh(id) ==
  id \in DOMAIN detailCache /\ now - detailCache[id].ts < TTL_DETAIL_MS

IdleCall == [op |-> "none", pc |-> "idle", id |-> "", cand |-> 0, url |-> "",
             snap |-> Null,
             lastErr |-> "none", upErr |-> FALSE, afterInv |-> FALSE,
             afterAnn |-> FALSE, served |-> "none", status |-> 0, data |-> Null]

\* A call is over: its slot can take the next request.
Free(r) == calls[r].pc \in {"idle", "done"}

\* What a fetchJson of the list endpoint can come back with.
ListResponses == {"ok", "error"}
\* What a fetchJson of one detail candidate can come back with: a record with
\* an id or a title, a 2xx body with neither, a 404, a 5xx or network failure.
DetailResponses == {"rec", "empty", "notfound", "error"}

\* GET /api/events -> findEvents, up to the await of fetchJson.
FindEventsCall(r) ==
  /\ Free(r)
  /\ calls' = [calls EXCEPT ![r] =
       IF ListFresh
         THEN [IdleCall EXCEPT !.op = "list", !.pc = "done", !.served = "cache",
                 !.status = 200, !.data = listCache.data,
                 !.afterInv = TRUE, !.afterAnn = ~unannounced]
         ELSE [IdleCall EXCEPT !.op = "list", !.pc = "fetch",
                 !.afterInv = TRUE, !.afterAnn = ~unannounced]]
  /\ UNCHANGED <<now, ticks, listCache, detailCache, recent, emitted, resp,
                 hookLog, unannounced>>
  /\ UNCHANGED chatVars

\* The upstream answers the list fetch; the body is the content of that moment.
ListRespond(r) ==
  /\ calls[r].op = "list" /\ calls[r].pc = "fetch"
  /\ \E o \in ListResponses :
       calls' = [calls EXCEPT ![r].pc = "resp",
                   ![r].snap = IF o = "ok" THEN FreshData ELSE Null,
                   ![r].upErr = (o = "error")]
  /\ UNCHANGED <<now, ticks, listCache, detailCache, recent, emitted, resp,
                 hookLog, unannounced>>
  /\ UNCHANGED chatVars

\* A findEvents that does not put an answer the upstream has since replaced
\* over a current one.
listCommitKeepsNewer(c) ==
  IF listCache.data # Null /\ ~listCache.data.old /\ c.snap.old
    THEN listCache
    ELSE [ts |-> now, data |-> Mapped(c.snap)]
\* A findEvents that leaves the slot alone when the cache was invalidated
\* while its fetch was under way.
listCommitIfCurrent(c) ==
  IF c.afterInv THEN [ts |-> now, data |-> Mapped(c.snap)] ELSE listCache
\* listCache = { ts: now(), data: mapped }
listCommit(c) == [ts |-> now, data |-> Mapped(c.snap)]

\* A route that answers a failed fetch with what the slot still holds.
listFailedServesStale(c) ==
  IF listCache.data # Null
    THEN [c EXCEPT !.pc = "done", !.status = 200, !.served = "cache",
            !.data = listCache.data, !.snap = Null]
    ELSE [c EXCEPT !.pc = "done", !.status = 500, !.served = "none", !.snap = Null]
\* fetchJson throws, findEvents with it, and GET /api/events answers
\* res.status(500).json({ error: String(e) }).
listFailed(c) ==
  [c EXCEPT !.pc = "done", !.status = 500, !.served = "none", !.snap = Null]

\* findEvents after the await: commit to the slot and return, or throw, which
\* the route turns into a 500.
FindEventsResume(r) ==
  /\ calls[r].op = "list" /\ calls[r].pc = "resp"
  /\ IF calls[r].upErr
       THEN /\ calls' = [calls EXCEPT ![r] = listFailed(calls[r])]
            /\ UNCHANGED listCache
       ELSE /\ listCache' = listCommit(calls[r])
            /\ calls' = [calls EXCEPT ![r].pc = "done", ![r].status = 200,
                           ![r].served = "upstream",
                           ![r].data = Mapped(calls[r].snap),
                           ![r].snap = Null]
  /\ UNCHANGED <<now, ticks, detailCache, recent, emitted, resp, hookLog,
                 unannounced>>
  /\ UNCHANGED chatVars

\* The route's answer to what getEventById returned: if (!row) 404.
RowStatus(row) == IF row = Null THEN 404 ELSE 200

\* GET /api/events/:id -> getEventById, up to the await of the first candidate.
GetEventByIdCall(r, id) ==
  /\ Free(r)
  /\ calls' = [calls EXCEPT ![r] =
       IF DetailFresh(id)
         THEN [IdleCall EXCEPT !.op = "detail", !.pc = "done", !.id = id,
                 !.served = "cache", !.status = RowStatus(detailCache[id].data),
                 !.data = detailCache[id].data,
                 !.afterInv = TRUE, !.afterAnn = ~unannounced]
         ELSE [IdleCall EXCEPT !.op = "detail", !.pc = "fetch", !.id = id,
                 !.cand = 1, !.url = candidates[1],
                 !.afterInv = TRUE, !.afterAnn = ~unannounced]]
  /\ UNCHANGED <<now, ticks, listCache, detailCache, recent, emitted, resp,
                 hookLog, unannounced>>
  /\ UNCHANGED chatVars

\* The upstream answers the candidate being awaited.
DetailRespond(r) ==
  /\ calls[r].op = "detail" /\ calls[r].pc = "fetch"
  /\ \E o \in DetailResponses :
       calls' = [calls EXCEPT ![r].pc = "resp",
                   ![r].snap = IF o = "rec" THEN FreshData ELSE Null,
                   ![r].lastErr = IF o \in {"notfound", "error"} THEN o
                                  ELSE calls[r].lastErr,
                   ![r].upErr = calls[r].upErr \/ (o = "error")]
  /\ UNCHANGED <<now, ticks, listCache, detailCache, recent, emitted, resp,
                 hookLog, unannounced>>
  /\ UNCHANGED chatVars

\* What the route answers when getEventById throws: the catch answers 500.
ThrowStatus(lastErr) == 500

\* getEventById after an await: accept the record, go on to the next
\* candidate, or throw lastErr || new Error("no detail endpoint found").
GetEventByIdResume(r) ==
  /\ calls[r].op = "detail" /\ calls[r].pc = "resp"
  /\ IF calls[r].snap # Null
       THEN /\ detailCache' = MapSet(detailCache, calls[r].id,
                                     [ts |-> now, data |-> Normalized(calls[r].snap)])
            /\ calls' = [calls EXCEPT ![r].pc = "done",
                           ![r].status = RowStatus(Normalized(calls[r].snap)),
                           ![r].served = "upstream",
                           ![r].data = Normalized(calls[r].snap),
                           ![r].snap = Null]
       ELSE IF calls[r].cand < Len(candidates)
         THEN /\ calls' = [calls EXCEPT ![r].pc = "fetch",
                             ![r].cand = calls[r].cand + 1,
                             ![r].url = candidates[calls[r].cand + 1]]
              /\ UNCHANGED detailCache
         ELSE /\ calls' = [calls EXCEPT ![r].pc = "done",
                             ![r].status = ThrowStatus(calls[r].lastErr)]
              /\ UNCHANGED detailCache
  /\ UNCHANGED <<now, ticks, listCache, recent, emitted, resp, hookLog,
                 unannounced>>
  /\ UNCHANGED chatVars

\* invalidateEventsCache(): the new list slot and the new detail map.
InvalidatedList == [ts |-> 0, data |-> Null]
InvalidatedDetail == EmptyMap

\* An invalidation that empties one cache per call: the list slot first.
invalidateOneAtATime(c) ==
  IF c.list.data # Null
    THEN [list |-> InvalidatedList, detail |-> c.detail]
    ELSE [list |-> InvalidatedList, detail |-> InvalidatedDetail]
\* invalidateEventsCache() as a function of the two caches it is called on.
invalidateEventsCache(c) ==
  [list |-> InvalidatedList, detail |-> InvalidatedDetail]

\* Every body obtained so far was obtained before this invalidation, and no
\* call now in its slot started after it.
CallsAfterInvalidate ==
  [r \in Reqs |-> [calls[r] EXCEPT !.afterInv = FALSE,
                     !.snap = MarkPre(calls[r].snap),
                     !.data = MarkPre(calls[r].data)]]

----------------------------------------------------------------------------
(* server/index.js: the change notification path *)

WEBHOOK_SECRET == "devsecret123"
Headers == {"", "wrong", WEBHOOK_SECRET}

NoAction == JsUndef
HookIds == {JsStr(<<"4", "0", "5", "5", "1">>)}
Bodies == [id : HookIds, action : {NoAction, JsStr(<<"u", "p", "d", "a", "t", "e", "d">>), JsStr(<<"d", "e", "l", "e", "t", "e", "d">>)}]

\* The webhook body of the runs in which the ledger is not the subject.
OneBody == [id |-> JsStr(<<"4", "0", "5", "5", "1">>), action |-> JsStr(<<"u", "p", "d", "a", "t", "e", "d">>)]

\* A key made of the id alone.
KeyOfIdOnly(body) == String(body.id)
\* const { id, action = "updated" } = req.body; key = `${id}:${action}`
KeyOf(body) ==
  String(body.id) \o <<":">>
    \o String(IF body.action = JsUndef THEN JsStr(<<"u", "p", "d", "a", "t", "e", "d">>) ELSE body.action)

\* A verifyWebhook that lets every header through.
verifyWebhookAny(hdr) == TRUE
\* verifyWebhook: WEBHOOK_SECRET && hdr === WEBHOOK_SECRET
verifyWebhook(hdr) == WEBHOOK_SECRET # "" /\ hdr = WEBHOOK_SECRET

windowMs == 2000
SweepSize == 500

\* A sweep that removes what is older than the window itself.
sweepAtWindow(set) ==
  IF Cardinality(DOMAIN set) > SweepSize
    THEN [k \in {x \in DOMAIN set : ~(now - set[x] > windowMs)} |-> set[k]]
    ELSE set
\* shouldDrop: if (recent.size > 500) for (const [k, t] of recent)
\*   if (now - t > windowMs * 2) recent.delete(k);
sweep(set) ==
  IF Cardinality(DOMAIN set) > SweepSize
    THEN [k \in {x \in DOMAIN set : ~(now - set[x] > windowMs * 2)} |-> set[k]]
    ELSE set

\* A shouldDrop that leaves the time of a key alone when it drops.
LedgerAfterFirstSeen(key) ==
  IF key \in DOMAIN recent /\ now - recent[key] < windowMs
    THEN recent
    ELSE MapSet(recent, key, now)
\* shouldDrop: the ledger after recent.set(key, now) and the sweep.
LedgerAfter(key) == sweep(MapSet(recent, key, now))

\* A shouldDrop that drops nothing.
shouldDropNever(key) == FALSE
\* shouldDrop: last && now - last < windowMs, last read before the set.
shouldDrop(key) ==
  key \in DOMAIN recent /\ recent[key] # 0 /\ now - recent[key] < windowMs

\* The answer to one authentic delivery, with the time since the delivery
\* before it of the same key (-1: there was none), whether it left both caches
\* empty and how many broadcasts it sent.
Logged(key) ==
  MapSet(hookLog, key,
         (IF key \in DOMAIN hookLog THEN hookLog[key] ELSE <<>>)
           \o <<[gap |-> IF key \in DOMAIN recent THEN now - recent[key] ELSE -1,
                 out |-> resp'.body,
                 cleared |-> (listCache'.data = Null /\ DOMAIN detailCache' = {}),
                 sent |-> emitted' - emitted]>>)

Deliveries ==
  LET RECURSIVE Sum(_)
      Sum(S) == IF S = {} THEN 0
                ELSE LET k == CHOOSE k \in S : TRUE
                     IN  Len(hookLog[k]) + Sum(S \ {k})
  IN  Sum(DOMAIN hookLog)

\* The caches as io.emit would find them, were it called before
\* invalidateEventsCache().
EmitSeesBefore == [list |-> listCache, detail |-> detailCache]
\* The caches as io.emit("event-updated", ...) finds them: in both handlers it
\* is the statement after invalidateEventsCache().
EmitSees == [list |-> InvalidatedList, detail |-> InvalidatedDetail]

AtEmit ==
  IF EmitSees.list.data = Null /\ DOMAIN EmitSees.detail = {}
    THEN "cleared" ELSE "stale"

\* The duplicate's branch, had invalidateEventsCache() been called before it.
DropBranchInvalidates ==
  /\ resp' = [route |-> "webhook", status |-> 200, body |-> "dropped",
              atEmit |-> "none"]
  /\ listCache' = InvalidatedList
  /\ detailCache' = InvalidatedDetail
  /\ calls' = CallsAfterInvalidate
  /\ UNCHANGED emitted
\* POST /webhooks/wp, a duplicate: return res.json({ ok: true, dropped: true })
DropBranch ==
  /\ resp' = [route |-> "webhook", status |-> 200, body |-> "dropped",
              atEmit |-> "none"]
  /\ UNCHANGED <<listCache, detailCache, emitted, calls>>

\* POST /webhooks/wp
WebhookHandler(hdr, body) ==
  IF ~verifyWebhook(hdr)
    THEN /\ resp' = [route |-> "webhook", status |-> 401, body |-> "unauthorized",
                    atEmit |-> "none"]
         /\ UNCHANGED <<listCache, detailCache, recent, emitted, unannounced, calls>>
    ELSE LET key == KeyOf(body) IN
         /\ recent' = LedgerAfter(key)
         /\ unannounced' = FALSE
         /\ IF shouldDrop(key)
              THEN DropBranch
              ELSE /\ emitted < MaxEmit
                   /\ listCache' = InvalidatedList
                   /\ detailCache' = InvalidatedDetail
                   /\ calls' = CallsAfterInvalidate
                   /\ emitted' = emitted + 1
                   /\ resp' = [route |-> "webhook", status |-> 200, body |-> "received",
                              atEmit |-> AtEmit]

\* A delivery, its answer kept in the log of its key.
Webhook(hdr, body) ==
  /\ WebhookHandler(hdr, body)
  /\ IF verifyWebhook(hdr)
       THEN /\ Deliveries < MaxDeliveries
            /\ hookLog' = Logged(KeyOf(body))
       ELSE UNCHANGED hookLog
  /\ UNCHANGED <<now, ticks, chatVars>>

\* The bodies of the runs about the ledger: two pairs of id and action that
\* make the same key, the same id as a number without an action and as a
\* text with one, and another action of that id.
LedgerBodies ==
  { [id |-> JsStr(<<"a", ":", "b">>), action |-> JsStr(<<"c">>)],
    [id |-> JsStr(<<"a">>), action |-> JsStr(<<"b", ":", "c">>)],
    [id |-> JsNum(7), action |-> JsUndef],
    [id |-> JsStr(<<"7">>), action |-> JsStr(<<"u", "p", "d", "a", "t", "e", "d">>)],
    [id |-> JsStr(<<"7">>), action |-> JsStr(<<"d", "e", "l", "e", "t", "e", "d">>)] }

\* The log entry of Logged with the time of the delivery and its body.
LoggedAt(body) ==
  LET key == KeyOf(body)
      e == Logged(key)[key]
      last == e[Len(e)]
  IN  MapSet(hookLog, key,
             SubSeq(e, 1, Len(e) - 1)
               \o <<[gap |-> last.gap, out |-> last.out, cleared |-> last.cleared,
                     sent |-> last.sent, at |-> now, id |-> body.id,
                     action |-> body.action]>>)

\* A delivery, its answer kept in the log of its key with its time and body.
Delivery(hdr, body) ==
  /\ WebhookHandler(hdr, body)
  /\ IF verifyWebhook(hdr)
       THEN /\ Deliveries < MaxDeliveries
            /\ hookLog' = LoggedAt(body)
       ELSE UNCHANGED hookLog
  /\ UNCHANGED <<now, ticks, chatVars>>

\* The keys of a burst of deliveries, one per event id 1001..1500.
FloodKeys ==
  {Str(1000 + n) \o <<":", "u", "p", "d", "a", "t", "e", "d">> : n \in 1..SweepSize}

\* A burst on the empty ledger: one authentic delivery for each of these ids,
\* all within the same millisecond and none of them a duplicate.  Every one
\* of them sets its key, and none leaves more than 500 keys.  Each of them
\* empties the caches; their broadcasts are not counted in `emitted` and
\* their answers are not logged.
Flood ==
  /\ DOMAIN recent = {}
  /\ recent' = sweep([k \in FloodKeys |-> now])
  /\ unannounced' = FALSE
  /\ listCache' = InvalidatedList
  /\ detailCache' = InvalidatedDetail
  /\ calls' = CallsAfterInvalidate
  /\ resp' = [route |-> "webhook", status |-> 200, body |-> "received",
              atEmit |-> AtEmit]
  /\ UNCHANGED <<now, ticks, emitted, hookLog, chatVars>>

\* A delivery of which no log is kept.
Notify(hdr, body) ==
  /\ WebhookHandler(hdr, body)
  /\ UNCHANGED <<now, ticks, hookLog, chatVars>>

\* GET /admin/ping
AdminPing ==
  /\ emitted < MaxEmit
  /\ listCache' = InvalidatedList
  /\ detailCache' = InvalidatedDetail
  /\ calls' = CallsAfterInvalidate
  /\ emitted' = emitted + 1
  /\ resp' = [route |-> "admin", status |-> 200, body |-> "emitted",
              atEmit |-> AtEmit]
  /\ UNCHANGED <<now, ticks, recent, hookLog, unannounced, chatVars>>

----------------------------------------------------------------------------
(* server/index.js: POST /ai/ask *)

Min(a, b) == IF a < b THEN a ELSE b
Max(a, b) == IF a < b THEN b ELSE a

\* A field the request body does not have.
Undefined == "undefined"

\* req.body.message: absent, empty, blank, a word, a word after a blank.
Messages == {Undefined, "", " ", "hi", " hi"}
\* String(req.body?.message || "")
Text(m) == IF m = Undefined THEN "" ELSE m
\* A trim that takes nothing off.
TrimNothing(m) == m
\* .trim()
Trim(m) == IF m = " " THEN "" ELSE IF m = " hi" THEN "hi" ELSE m
messageOf(body) == Trim(Text(body.message))

\* req.body.limit as express.json hands it over: absent, null, a number, or
\* Infinity, which JSON.parse makes of a literal such as 1e400.
Num(n) == [t |-> "number", v |-> n]
UndefinedV == [t |-> "undefined", v |-> 0]
NullV == [t |-> "null", v |-> 0]
InfinityV == [t |-> "Infinity", v |-> 0]
Limits == {UndefinedV, NullV, Num(0), Num(1), Num(25), InfinityV}

\* JSON.stringify and the JSON.parse of the receiver: undefined is left out,
\* Infinity is written as null.
Reparsed(v) == IF v.t = "Infinity" THEN NullV ELSE v

\* Math.max(1, Math.min(20, Number(req.body?.limit || 10)))
limitOf(v) ==
  LET n == IF v.t \in {"undefined", "null"} \/ (v.t = "number" /\ v.v = 0)
             THEN Num(10) ELSE v
  IN  IF n.t = "Infinity" THEN 20 ELSE Max(1, Min(20, n.v))

\* How many titles of the list contain q.
Totals == {0, 3, 12, 25}
\* What findEvents({ limit: 100, q }) came back with: rows, or a throw.
NoRows == [err |-> FALSE, n |-> 0]
Rows(n) == [err |-> FALSE, n |-> Min(n, 100)]
Thrown == [err |-> TRUE, n |-> 0]

categories == {"comedy", "music", "family", "sport", "sports", "dance", "exhibition"}
\* builtinClassifyQuery, for a message of one word.
builtinClassifyQuery(message) ==
  [q |-> message, parts |-> IF message \in categories THEN <<message>> ELSE <<>>]

NoAnswer == [found |-> 0, parts |-> <<>>, upTo |-> 0]
\* builtinBuildAnswer: the sentence is given by its numbers and its facet.
builtinBuildAnswer(parts, total, shown) ==
  [error |-> "",
   answer |-> [found |-> total, parts |-> parts,
               upTo |-> IF total = 0 THEN 0 ELSE shown],
   hits |-> IF total = 0 THEN 0 ELSE shown]

\* The response of POST /ai/ask to a body, given what findEvents came back
\* with.
aiAskAnswer(body, found) ==
  IF messageOf(body) = ""
    THEN [status |-> 400,
          payload |-> [error |-> "message required", answer |-> NoAnswer, hits |-> 0]]
  ELSE IF found.err
    THEN [status |-> 500,
          payload |-> [error |-> "Error", answer |-> NoAnswer, hits |-> 0]]
  ELSE LET c == builtinClassifyQuery(messageOf(body))
           limit == limitOf(body.limit)
       IN  [status |-> 200,
            payload |-> builtinBuildAnswer(c.parts, found.n, Min(found.n, limit))]

NoPayload == [error |-> "", answer |-> NoAnswer, hits |-> 0]

IdleAiAsk ==
  [pc |-> "idle", by |-> "none",
   body |-> [message |-> Undefined, limit |-> UndefinedV],
   found |-> NoRows, status |-> 0, payload |-> NoPayload,
   cacheReads |-> 0, fetches |-> 0]

\* The request is on its way to the /ai/ask route.
Posted(by, body) == [IdleAiAsk EXCEPT !.pc = "sent", !.by = by, !.body = body]

\* No /ai/ask request is in flight, and none waits to be relayed.
AiAskFree == aiAsk.pc = "idle" \/ (aiAsk.pc = "done" /\ aiAsk.by = "client")

AiAskDone(a, found) ==
  LET r == aiAskAnswer(a.body, found)
  IN  [a EXCEPT !.pc = "done", !.found = found, !.status = r.status,
         !.payload = r.payload]

\* A client posts to /ai/ask.
AiAskPost(m, l) ==
  /\ AiAskFree
  /\ aiAsk' = Posted("client", [message |-> m, limit |-> l])
  /\ UNCHANGED <<client, streamChatFn, apiKey, chat, ask, nl, dataVars>>

\* POST /ai/ask up to its await: the 400, or findEvents up to its fetchJson.
AiAskHandler ==
  /\ aiAsk.pc = "sent"
  /\ IF messageOf(aiAsk.body) = ""
       THEN aiAsk' = AiAskDone(aiAsk, NoRows)
     ELSE IF ListFresh
       THEN \E n \in Totals :
              aiAsk' = AiAskDone([aiAsk EXCEPT !.cacheReads = 1], Rows(n))
     ELSE aiAsk' = [aiAsk EXCEPT !.pc = "fetch", !.cacheReads = 1, !.fetches = 1]
  /\ UNCHANGED <<client, streamChatFn, apiKey, chat, ask, nl, dataVars>>

\* findEvents after its await, and the rest of the route: the list is cached
\* and the answer built, or the throw is answered 500.
AiAskResume ==
  /\ aiAsk.pc = "fetch"
  /\ \E o \in ListResponses :
       IF o = "error"
         THEN /\ aiAsk' = AiAskDone(aiAsk, Thrown)
              /\ UNCHANGED listCache
         ELSE /\ listCache' = [ts |-> now, data |-> Mapped(FreshData)]
              /\ \E n \in Totals : aiAsk' = AiAskDone(aiAsk, Rows(n))
  /\ UNCHANGED <<now, ticks, detailCache, recent, emitted, resp, hookLog,
                 unannounced, calls>>
  /\ UNCHANGED <<client, streamChatFn, apiKey, chat, ask, nl>>

----------------------------------------------------------------------------
(* server/lib/llm.js: streamChat, in its two versions *)

MaxChunks == 3
MaxChunkLen == 2
\* The longest body kept on record and the longest chunk of it, in pieces of
\* text.
MaxBody == 4
MaxFeedLen == 3

\* The response body of the language model, as the pieces of text a chunk
\* boundary can fall between.  "NL" is a newline.  "x1" followed by "x2" is the
\* line data: {"choices":[{"delta":{"content":"x"}}]}, either half alone is not
\* JSON.  "Y" is such a line for the delta "y"; "YF" carries the delta "y" and
\* a finish_reason; "F" carries a finish_reason and no content; "M" carries
\* choices[0].message.content = "m"; "R" is a delta line for "r" without the
\* data: prefix; "DONE" is data: [DONE]; "G" is a line that is not JSON; "E" is
\* a data: line of JSON with an empty delta and no finish_reason.
Symbols == {"NL", "x1", "x2", "Y", "YF", "F", "M", "R", "DONE", "G", "E"}

RECURSIVE SeqsUpTo(_, _)
SeqsUpTo(S, n) ==
  IF n = 0 THEN {<<>>}
  ELSE LET shorter == SeqsUpTo(S, n - 1)
       IN  shorter \cup {Append(q, x) : q \in shorter, x \in S}

Chunks == SeqsUpTo(Symbols, MaxChunkLen) \ {<<>>}

\* The chunks of the bodies kept on record, of which no more than room pieces
\* of text are still to come.
FeedSymbols == {"NL", "x1", "x2", "Y", "YF", "M", "DONE", "G", "E"}
FeedChunks(room) ==
  SeqsUpTo(FeedSymbols, IF room < MaxFeedLen THEN room ELSE MaxFeedLen) \ {<<>>}

\* text.split(/\r?\n/): the segments between the newlines, the last one being
\* what follows the last newline.
RECURSIVE SplitLines(_)
SplitLines(text) ==
  IF \A i \in 1..Len(text) : text[i] # "NL" THEN <<text>>
  ELSE LET i == CHOOSE j \in 1..Len(text) :
                  text[j] = "NL" /\ \A k \in 1..(j - 1) : text[k] # "NL"
       IN  <<SubSeq(text, 1, i - 1)>> \o SplitLines(SubSeq(text, i + 1, Len(text)))

Front(q) == SubSeq(q, 1, Len(q) - 1)
Last(q) == q[Len(q)]

\* The text kept for the next chunk, up to what no later text can change: a
\* beginning of a line that parses is kept as it is, and any other text, which
\* parses to nothing whatever follows it, is kept as "G".
Kept(text) ==
  IF Len(text) = 0 \/ text = <<"x1", "x2">> THEN text
  ELSE IF Len(text) = 1 /\ text[1] # "x2" THEN text
  ELSE <<"G">>

Skip == [kind |-> "skip", delta |-> "", fin |-> FALSE]

\* What one line is to the part_000 version: the data: prefix is optional,
\* delta.content ?? message.content is the delta, finish_reason is read.
ParseNew(line) ==
  IF line = <<"DONE">> THEN [kind |-> "sentinel", delta |-> "", fin |-> FALSE]
  ELSE IF line = <<"x1", "x2">> THEN [kind |-> "json", delta |-> "x", fin |-> FALSE]
  ELSE IF line = <<"Y">> THEN [kind |-> "json", delta |-> "y", fin |-> FALSE]
  ELSE IF line = <<"YF">> THEN [kind |-> "json", delta |-> "y", fin |-> TRUE]
  ELSE IF line = <<"F">> THEN [kind |-> "json", delta |-> "", fin |-> TRUE]
  ELSE IF line = <<"M">> THEN [kind |-> "json", delta |-> "m", fin |-> FALSE]
  ELSE IF line = <<"R">> THEN [kind |-> "json", delta |-> "r", fin |-> FALSE]
  ELSE IF line = <<"E">> THEN [kind |-> "json", delta |-> "", fin |-> FALSE]
  ELSE Skip

\* What one line is to the llm.js version: only data: lines are read, only
\* delta.content is the delta, finish_reason is not read.
ParseOld(line) ==
  IF line = <<"DONE">> THEN [kind |-> "sentinel", delta |-> "", fin |-> FALSE]
  ELSE IF line = <<"x1", "x2">> THEN [kind |-> "json", delta |-> "x", fin |-> FALSE]
  ELSE IF line \in {<<"Y">>, <<"YF">>} THEN [kind |-> "json", delta |-> "y", fin |-> FALSE]
  ELSE IF line \in {<<"F">>, <<"E">>} THEN [kind |-> "json", delta |-> "", fin |-> FALSE]
  ELSE Skip

\* A reading that takes a line it cannot use for the end of the stream.
ParseOrEnd(fn, line) ==
  LET v == IF fn = "part_000" THEN ParseNew(line) ELSE ParseOld(line)
  IN  IF v = Skip \/ (v.delta = "" /\ ~v.fin /\ v.kind = "json")
        THEN [kind |-> "sentinel", delta |-> "", fin |-> FALSE]
        ELSE v
\* What one line is to the streamChat that was loaded.
Parse(fn, line) == IF fn = "part_000" THEN ParseNew(line) ELSE ParseOld(line)

----------------------------------------------------------------------------
(* server/index.js: POST /ai/chat and the callbacks it gives streamChat *)

Frame(ev, val) == [ev |-> ev, val |-> val]

IdleChat ==
  [pc |-> "idle", message |-> "", headersSent |-> FALSE, frames |-> <<>>,
   ended |-> FALSE, json |-> 0, via |-> "none",
   sc |-> "none", timer |-> "none", aborted |-> FALSE, buffer |-> <<>>,
   full |-> <<>>, chunks |-> 0, doneCalls |-> 0, errCalls |-> 0, exit |-> "none",
   body |-> <<>>, split |-> FALSE,
   ctype |-> "none", req |-> [message |-> Undefined, limit |-> UndefinedV],
   payload |-> NoPayload, method |-> "none"]

\* res.write: nothing is written to a response that has ended.
Write(st, frame) ==
  IF st.ended THEN st ELSE [st EXCEPT !.frames = Append(st.frames, frame)]

\* An onToken that puts its frame before the frames already written.
OnTokenFirst(st, t) ==
  IF st.ended THEN st
  ELSE [st EXCEPT !.frames = <<Frame("token", <<t>>)>> \o st.frames]
\* onToken: (t) => res.write(`data: ${JSON.stringify({ token: t })}\n\n`)
OnToken(st, t) == Write(st, Frame("token", <<t>>))

\* An onDone without its res.end().
OnDoneNoEnd(st) ==
  [Write(st, Frame("done", st.full)) EXCEPT !.doneCalls = st.doneCalls + 1]
\* onDone: write the done frame with the final text, res.end()
OnDone(st) ==
  [Write(st, Frame("done", st.full)) EXCEPT !.ended = TRUE,
     !.doneCalls = st.doneCalls + 1]

\* An onError without its res.end().
OnErrorNoEnd(st) ==
  [Write(st, Frame("error", <<>>)) EXCEPT !.errCalls = st.errCalls + 1]
\* onError: write the error frame, res.end()
OnError(st) ==
  [Write(st, Frame("error", <<>>)) EXCEPT !.ended = TRUE,
     !.errCalls = st.errCalls + 1]

\* streamChat returns (finally: clearTimeout), and with it the handler.
Returned(st, exit) ==
  [st EXCEPT !.sc = "returned", !.exit = exit, !.pc = "done",
     !.timer = IF st.timer = "none" THEN "none" ELSE "cleared"]

\* The loop body without the return that follows onDone(full) on a
\* finish_reason.
StepNoReturn(fn, line, st) ==
  LET v == Parse(fn, line)
      tok == IF v.delta # ""
               THEN OnToken([st EXCEPT !.full = Append(st.full, v.delta)], v.delta)
               ELSE st
  IN  IF v.kind = "skip" THEN st
      ELSE IF v.kind = "sentinel" THEN Returned(OnDone(st), "sentinel")
      ELSE IF v.fin THEN OnDone(tok)
      ELSE tok
\* One line of the for (const raw of lines) loop: skip it, or end on the
\* sentinel, or forward its delta and end on its finish_reason.
Step(fn, line, st) ==
  LET v == Parse(fn, line)
      tok == IF v.delta # ""
               THEN OnToken([st EXCEPT !.full = Append(st.full, v.delta)], v.delta)
               ELSE st
  IN  IF v.kind = "skip" THEN st
      ELSE IF v.kind = "sentinel" THEN Returned(OnDone(st), "sentinel")
      ELSE IF v.fin THEN Returned(OnDone(tok), "finish")
      ELSE tok

\* The loop going on through the lines that follow an end signal.
RECURSIVE LinesAll(_, _, _)
LinesAll(fn, lines, st) ==
  IF lines = <<>> THEN st
  ELSE LinesAll(fn, Tail(lines), Step(fn, Head(lines), st))
\* for (const raw of lines), which a return inside it ends.
RECURSIVE Lines(_, _, _)
Lines(fn, lines, st) ==
  IF lines = <<>> \/ st.sc = "returned" THEN st
  ELSE Lines(fn, Tail(lines), Step(fn, Head(lines), st))

\* The body of for await (const chunk of r.body).  part_000 keeps what follows
\* the last newline for the next chunk; llm.js splits each chunk on its own.
OnChunk(fn, chunk, st) ==
  LET n == [st EXCEPT !.chunks = st.chunks + 1] IN
  IF fn = "part_000"
    THEN LET parts == SplitLines(st.buffer \o chunk)
         IN  Lines(fn, Front(parts), [n EXCEPT !.buffer = Kept(Last(parts))])
    ELSE Lines(fn, SplitLines(chunk), n)

\* streamChat up to its first await.  llm.js gives up without a key.
StartStream(fn, st) ==
  IF fn = "llm.js" /\ ~apiKey
    THEN [OnError(st) EXCEPT !.sc = "returned", !.exit = "nokey", !.pc = "done"]
    ELSE [st EXCEPT !.sc = "fetch", !.timer = "armed", !.pc = "stream"]

\* The module load at the start of the server: index.js takes streamChat from
\* ./lib/llm.js, and has none if the import fails.
LoadBridge ==
  /\ streamChatFn = "unloaded"
  /\ streamChatFn' \in {"null", "llm.js", "part_000"}
  /\ apiKey' \in BOOLEAN
  /\ UNCHANGED <<client, chat, ask, aiAsk, nl, dataVars>>

\* POST /ai/chat up to its first await: the 400, the first frame and the call
\* of streamChat, or the request to /ai/ask.
ChatRequest(m, l) ==
  /\ streamChatFn # "unloaded" /\ chat.pc = "idle"
  /\ IF messageOf([message |-> m]) = ""
       THEN /\ chat' = [chat EXCEPT !.method = "POST",
                          !.pc = "done", !.json = 400, !.via = "handler",
                          !.ctype = "json", !.headersSent = TRUE, !.ended = TRUE,
                          !.payload = aiAskAnswer([message |-> m, limit |-> l],
                                                  NoRows).payload]
            /\ UNCHANGED aiAsk
     ELSE IF streamChatFn # "null"
       THEN /\ chat' = StartStream(streamChatFn,
                          [chat EXCEPT !.message = messageOf([message |-> m]),
                             !.method = "POST",
                             !.headersSent = TRUE, !.ctype = "event-stream",
                             !.frames = <<Frame("hello", <<>>)>>])
            /\ UNCHANGED aiAsk
     ELSE /\ AiAskFree
          /\ chat' = [chat EXCEPT !.message = messageOf([message |-> m]),
                        !.method = "POST",
                        !.pc = "proxy", !.req = [message |-> m, limit |-> l]]
          /\ aiAsk' = Posted("chat", [message |-> messageOf([message |-> m]),
                                      limit |-> Reparsed(l)])
  /\ UNCHANGED <<client, streamChatFn, apiKey, ask, nl, dataVars>>

\* GET /ai/chat?message=m, as new EventSource(url) and curl send it: the
\* only handler of the path is app.post, so no route takes the request and
\* the framework answers 404 with its own page.
ChatGet(m) ==
  /\ streamChatFn # "unloaded" /\ chat.pc = "idle"
  /\ chat' = [chat EXCEPT !.method = "GET", !.message = m, !.pc = "done",
                !.json = 404, !.via = "no route", !.ctype = "html",
                !.headersSent = TRUE, !.ended = TRUE]
  /\ UNCHANGED <<client, streamChatFn, apiKey, ask, aiAsk, nl, dataVars>>

\* The fallback: the handler's own request to /ai/ask comes back, or fails.
\* An answer is relayed with its status; a failure is caught, and answered 500
\* as no header was sent.
ProxySettles ==
  /\ chat.pc = "proxy"
  /\ \E o \in {"answered", "failed"} :
       IF o = "answered"
         THEN /\ aiAsk.pc = "done" /\ aiAsk.by = "chat"
              /\ chat' = [chat EXCEPT !.pc = "done", !.headersSent = TRUE,
                            !.ended = TRUE, !.ctype = "json", !.via = "ask",
                            !.json = aiAsk.status, !.payload = aiAsk.payload]
         ELSE chat' = [chat EXCEPT !.pc = "done", !.headersSent = TRUE,
                         !.ended = TRUE, !.ctype = "json", !.via = "catch",
                         !.json = 500,
                         !.payload = [NoPayload EXCEPT !.error = "Error"]]
  /\ UNCHANGED <<client, streamChatFn, apiKey, ask, aiAsk, nl, dataVars>>

Awaiting == chat.pc = "stream" /\ chat.sc \in {"fetch", "errtext", "body"}

\* await fetch(...) settles: a 2xx with a body, another response, or a
\* network failure.
FetchSettles ==
  /\ Awaiting /\ chat.sc = "fetch" /\ ~chat.aborted
  /\ \E o \in {"ok", "non2xx", "failed"} :
       chat' = IF o = "ok" THEN [chat EXCEPT !.sc = "body"]
               ELSE IF o = "non2xx" THEN [chat EXCEPT !.sc = "errtext"]
               ELSE Returned(OnError(chat), "network")
  /\ UNCHANGED <<client, streamChatFn, apiKey, ask, aiAsk, nl, dataVars>>

\* await r.text().catch(() => "") settles; throw new Error(`LLM HTTP ...`).
ErrTextSettles ==
  /\ Awaiting /\ chat.sc = "errtext" /\ ~chat.aborted
  /\ chat' = Returned(OnError(chat), "http")
  /\ UNCHANGED <<client, streamChatFn, apiKey, ask, aiAsk, nl, dataVars>>

\* The next chunk of the body arrives.
ChunkArrives ==
  /\ Awaiting /\ chat.sc = "body" /\ ~chat.aborted
  /\ chat.chunks < MaxChunks
  /\ \E c \in Chunks : chat' = OnChunk(streamChatFn, c, chat)
  /\ UNCHANGED <<client, streamChatFn, apiKey, ask, aiAsk, nl, dataVars>>

\* The next chunk of the body arrives; what has arrived of the body so far is
\* kept on record, and whether a chunk other than the last ended inside a line.
Feed ==
  /\ Awaiting /\ chat.sc = "body" /\ ~chat.aborted
  /\ \E c \in FeedChunks(MaxBody - Len(chat.body)) :
       /\ chat' = [OnChunk(streamChatFn, c, chat) EXCEPT
                     !.body = chat.body \o c, !.chunks = 0,
                     !.split = chat.split \/ (chat.body # <<>> /\ Last(chat.body) # "NL")]
  /\ UNCHANGED <<client, streamChatFn, apiKey, ask, aiAsk, nl, dataVars>>

\* The body ends: onDone(full) after the loop.
BodyEnds ==
  /\ Awaiting /\ chat.sc = "body" /\ ~chat.aborted
  /\ chat' = Returned(OnDone(chat), "eof")
  /\ UNCHANGED <<client, streamChatFn, apiKey, ask, aiAsk, nl, dataVars>>

\* The connection fails while the body is read.
BodyFails ==
  /\ Awaiting /\ chat.sc = "body" /\ ~chat.aborted
  /\ chat' = Returned(OnError(chat), "network")
  /\ UNCHANGED <<client, streamChatFn, apiKey, ask, aiAsk, nl, dataVars>>

\* setTimeout(() => ctrl.abort(), timeoutMs) fires.
TimerFires ==
  /\ Awaiting /\ chat.timer = "armed"
  /\ chat' = [chat EXCEPT !.timer = "fired", !.aborted = TRUE]
  /\ UNCHANGED <<client, streamChatFn, apiKey, ask, aiAsk, nl, dataVars>>

\* The await of an aborted request rejects.
AbortSettles ==
  /\ Awaiting /\ chat.aborted
  /\ chat' = Returned(OnError(chat), "abort")
  /\ UNCHANGED <<client, streamChatFn, apiKey, ask, aiAsk, nl, dataVars>>

\* A chunk of whole lines arrives: a line with a delta, or the [DONE] line.
Drip ==
  /\ Awaiting /\ chat.sc = "body" /\ ~chat.aborted
  /\ chat.chunks < MaxChunks
  /\ \E c \in {<<"Y", "NL">>, <<"DONE", "NL">>} :
       chat' = OnChunk(streamChatFn, c, chat)
  /\ UNCHANGED <<client, streamChatFn, apiKey, ask, aiAsk, nl, dataVars>>

----------------------------------------------------------------------------
(* server/lib/llm.js: askLLM, in its two versions *)

IdleAsk == [pc |-> "idle", timer |-> "none", aborted |-> FALSE, outcome |-> "none"]

\* An askLLM that settles without its finally.
AskSettledTimerLeft(a, outcome) == [a EXCEPT !.pc = "done", !.outcome = outcome]
\* askLLM settles: return text, or a throw; finally { clearTimeout(t) }.
AskSettled(a, outcome) ==
  [a EXCEPT !.pc = "done", !.outcome = outcome,
     !.timer = IF a.timer = "none" THEN "none" ELSE "cleared"]

AskAwaiting == ask.pc \in {"fetch", "errtext", "json"}

\* askLLM up to its first await.  llm.js throws without a key, before it sets
\* the timer.
AskCall ==
  /\ streamChatFn \in {"llm.js", "part_000"} /\ ask.pc = "idle"
  /\ ask' = IF streamChatFn = "llm.js" /\ ~apiKey
              THEN [IdleAsk EXCEPT !.pc = "done", !.outcome = "rejected"]
              ELSE [IdleAsk EXCEPT !.pc = "fetch", !.timer = "armed"]
  /\ UNCHANGED <<client, streamChatFn, apiKey, chat, aiAsk, nl, dataVars>>

\* await fetch(...) settles.
AskFetchSettles ==
  /\ ask.pc = "fetch" /\ ~ask.aborted
  /\ \E o \in {"ok", "non2xx", "failed"} :
       ask' = IF o = "ok" THEN [ask EXCEPT !.pc = "json"]
              ELSE IF o = "non2xx" THEN [ask EXCEPT !.pc = "errtext"]
              ELSE AskSettled(ask, "rejected")
  /\ UNCHANGED <<client, streamChatFn, apiKey, chat, aiAsk, nl, dataVars>>

\* await r.text().catch(() => "") settles; throw new Error(`LLM HTTP ...`).
AskErrTextSettles ==
  /\ ask.pc = "errtext" /\ ~ask.aborted
  /\ ask' = AskSettled(ask, "rejected")
  /\ UNCHANGED <<client, streamChatFn, apiKey, chat, aiAsk, nl, dataVars>>

\* await r.json() settles: the text is returned, or the body is not JSON.
AskJsonSettles ==
  /\ ask.pc = "json" /\ ~ask.aborted
  /\ \E o \in {"text", "rejected"} : ask' = AskSettled(ask, o)
  /\ UNCHANGED <<client, streamChatFn, apiKey, chat, aiAsk, nl, dataVars>>

\* setTimeout(() => ctrl.abort(), timeoutMs) fires.
AskTimerFires ==
  /\ AskAwaiting /\ ask.timer = "armed"
  /\ ask' = [ask EXCEPT !.timer = "fired", !.aborted = TRUE]
  /\ UNCHANGED <<client, streamChatFn, apiKey, chat, aiAsk, nl, dataVars>>

\* The await of an aborted request rejects.
AskAbortSettles ==
  /\ AskAwaiting /\ ask.aborted
  /\ ask' = AskSettled(ask, "rejected")
  /\ UNCHANGED <<client, streamChatFn, apiKey, chat, aiAsk, nl, dataVars>>

----------------------------------------------------------------------------
(* Text and JavaScript values *)

\* A text is the sequence of its characters.  The characters that are not
\* ASCII have names: ldquo and rdquo are the curly double quotes, lsquo and
\* rsquo the curly single quotes; dquote is the straight double quote.

RECURSIVE Join(_, _)
\* Array.prototype.join
Join(parts, sep) ==
  IF parts = <<>> THEN <<>>
  ELSE IF Len(parts) = 1 THEN parts[1]
  ELSE parts[1] \o sep \o Join(Tail(parts), sep)

\* String.prototype.includes
Includes(t, k) ==
  \E i \in 1..(Len(t) - Len(k) + 1) : SubSeq(t, i, i + Len(k) - 1) = k

\* Array.prototype.slice(0, n)
Take(q, n) == SubSeq(q, 1, Min(Len(q), n))

UpperCase == <<"A", "B", "C", "D", "E", "F", "G", "H", "I", "J", "K", "L", "M",
               "N", "O", "P", "Q", "R", "S", "T", "U", "V", "W", "X", "Y", "Z">>
LowerCase == <<"a", "b", "c", "d", "e", "f", "g", "h", "i", "j", "k", "l", "m",
               "n", "o", "p", "q", "r", "s", "t", "u", "v", "w", "x", "y", "z">>
Range(q) == {q[i] : i \in DOMAIN q}

\* The character classes of the regular expressions: \s, [a-z0-9] under the
\* i flag, \w.
IsSpace(c) == c \in {" ", "tab", "nl"}
IsAlnum(c) == c \in Range(UpperCase) \cup Range(LowerCase) \cup Range(Digit)
IsWord(c) == IsAlnum(c) \/ c = "_"

\* String.prototype.toLowerCase
lowerChar(c) ==
  IF c \in Range(UpperCase)
    THEN LowerCase[CHOOSE i \in DOMAIN UpperCase : UpperCase[i] = c]
    ELSE c
toLowerCase(t) == [i \in 1..Len(t) |-> lowerChar(t[i])]

RECURSIVE trimStart(_)
trimStart(t) == IF t # <<>> /\ IsSpace(t[1]) THEN trimStart(Tail(t)) ELSE t
RECURSIVE trimEnd(_)
trimEnd(t) ==
  IF t # <<>> /\ IsSpace(t[Len(t)]) THEN trimEnd(SubSeq(t, 1, Len(t) - 1)) ELSE t
\* String.prototype.trim
trim(t) == trimEnd(trimStart(t))

RECURSIVE collapse(_)
\* .replace(/\s+/g, " ")
collapse(t) ==
  IF t = <<>> THEN <<>>
  ELSE IF IsSpace(t[1])
    THEN IF Len(t) > 1 /\ IsSpace(t[2]) THEN collapse(Tail(t))
         ELSE <<" ">> \o collapse(Tail(t))
  ELSE <<t[1]>> \o collapse(Tail(t))

\* The three replacements of quotes and dashes.
plainChar(c) ==
  CASE c \in {"ldquo", "rdquo"} -> "dquote"
    [] c \in {"lsquo", "rsquo"} -> "'"
    [] c \in {"ndash", "mdash"} -> "-"
    [] OTHER -> c

\* normalizeText of ai.js, norm of its other version.
normalizeText(s) == trim(collapse([i \in 1..Len(s) |-> plainChar(s[i])]))

\* The text occurs at i.
At(t, k, i) == i >= 1 /\ i + Len(k) - 1 <= Len(t) /\ SubSeq(t, i, i + Len(k) - 1) = k

\* /\bk\b/.test(t), for a k that begins and ends with a word character.
HasWord(t, k) ==
  \E i \in 1..Len(t) :
    /\ At(t, k, i)
    /\ (i = 1 \/ ~IsWord(t[i - 1]))
    /\ (i + Len(k) > Len(t) \/ ~IsWord(t[i + Len(k)]))

\* Where a pair of quotes with text between them begins: an opening quote
\* whose next closing quote is not the next character.
QuoteEnd(t, i, close) ==
  IF \E j \in (i + 1)..Len(t) : t[j] = close
    THEN CHOOSE j \in (i + 1)..Len(t) :
           t[j] = close /\ \A h \in (i + 1)..(j - 1) : t[h] # close
    ELSE 0
QuotedAt(t, i, open, close) == t[i] = open /\ QuoteEnd(t, i, close) > i + 1
Between(t, i, close) == SubSeq(t, i + 1, QuoteEnd(t, i, close) - 1)

\* text.match(/"([^"]+)"|“([^”]+)”/): the first quoted text, or nothing.
detectQuotedName(t) ==
  LET hit(i) == QuotedAt(t, i, "dquote", "dquote") \/ QuotedAt(t, i, "ldquo", "rdquo")
  IN  IF \E i \in 1..Len(t) : hit(i)
        THEN LET i == CHOOSE i \in 1..Len(t) : hit(i) /\ \A h \in 1..(i - 1) : ~hit(h)
             IN  IF QuotedAt(t, i, "dquote", "dquote")
                   THEN Between(t, i, "dquote") ELSE Between(t, i, "rdquo")
        ELSE <<>>

RECURSIVE quotedFrom(_, _)
\* Array.from(txt.matchAll(/"([^"]+)"/g)).map((m) => m[1]), from i on.
quotedFrom(t, i) ==
  IF i > Len(t) THEN <<>>
  ELSE IF QuotedAt(t, i, "dquote", "dquote")
    THEN <<Between(t, i, "dquote")>> \o quotedFrom(t, QuoteEnd(t, i, "dquote") + 1)
  ELSE quotedFrom(t, i + 1)

\* The first occurrence of k is taken out: String.prototype.replace(k, "").
replaceFirst(t, k) ==
  IF Includes(t, k)
    THEN LET i == CHOOSE i \in 1..Len(t) : At(t, k, i) /\ \A h \in 1..(i - 1) : ~At(t, k, h)
         IN  SubSeq(t, 1, i - 1) \o SubSeq(t, i + Len(k), Len(t))
    ELSE t

RECURSIVE splitSpaces(_, _)
\* .split(/\s+/) without its empty strings; cur is the token being read.
splitSpaces(t, cur) ==
  IF t = <<>> THEN (IF cur = <<>> THEN <<>> ELSE <<cur>>)
  ELSE IF IsSpace(t[1])
    THEN (IF cur = <<>> THEN <<>> ELSE <<cur>>) \o splitSpaces(Tail(t), <<>>)
  ELSE splitSpaces(Tail(t), Append(cur, t[1]))

RECURSIVE dedupe(_, _)
\* The filter with the Set seen.
dedupe(toks, seen) ==
  IF toks = <<>> THEN <<>>
  ELSE IF toks[1] \in seen THEN dedupe(Tail(toks), seen)
  ELSE <<toks[1]>> \o dedupe(Tail(toks), seen \cup {toks[1]})

----------------------------------------------------------------------------
(* The upstream list and the records findEvents makes of it *)

MaxRows == 12

BaseTitles ==
  << <<"C", "o", "m", "e", "d", "y", " ", "N", "i", "g", "h", "t">>,
     <<"J", "a", "z", "z", " ", "T", "o", "m", "o", "r", "r", "o", "w">>,
     <<"T", "h", "e", " ", "M", "a", "c", "c", "a", "b", "e", "e", "s">>,
     <<"K", "i", "d", "s", " ", "C", "u", "p", "c", "a", "k", "e", "s">> >>

\* The title of the i-th event of the upstream list.
Title(i) == BaseTitles[((i - 1) % Len(BaseTitles)) + 1] \o <<" ">> \o Str(i)

\* The i-th item of the list the plugin serves.
UpstreamItem(i) ==
  [id |-> JsNum(i), title |-> JsStr(Title(i)), post_title |-> JsUndef,
   venue |-> JsStr(<<"H", "a", "l", "l">>)]

\* A findEvents that hands the upstream items on as they are.
mapListItemWhole(e) == e
\* findEvents: arr.map(e => ({ id: String(e.id), title: e.title || e.post_title || "" }))
mapListItem(e) ==
  [id |-> JsStr(String(e.id)), title |-> Or(Or(e.title, e.post_title), JsStr(<<>>))]

\* The records findEvents makes of a list of n items.
Listed(n) == [i \in 1..n |-> mapListItem(UpstreamItem(i))]

----------------------------------------------------------------------------
(* The shapes an upstream answer can have, and the records made of them     *)

\* a ?? b
Nullish(a, b) == IF a.t \in {"undefined", "null"} THEN b ELSE a

\* The end of the tag that opens at i, or 0: /<[^>]*>/
TagEnd(t, i) ==
  IF \E j \in (i + 1)..Len(t) : t[j] = ">"
    THEN CHOOSE j \in (i + 1)..Len(t) : t[j] = ">" /\ \A k \in (i + 1)..(j - 1) : t[k] # ">"
    ELSE 0

RECURSIVE untag(_)
\* .replace(/<[^>]*>/g, " ")
untag(t) ==
  IF t = <<>> THEN <<>>
  ELSE IF t[1] = "<" /\ TagEnd(t, 1) # 0
    THEN <<" ">> \o untag(SubSeq(t, TagEnd(t, 1) + 1, Len(t)))
  ELSE <<t[1]>> \o untag(Tail(t))

stripTags(html) == trim(collapse(untag(html)))

WP_BASE_URL == <<"h", "t", "t", "p", ":", "/", "/", "w", "p", ".", "l", "o", "c", "a", "l">>

\* fixHostUrl of a link of the upstream: null for none, a path put on the
\* base, any other text as it is.
fixHostUrl(u) ==
  IF ~Truthy(u) THEN JsNull
  ELSE IF u.t = "string" /\ u.s[1] = "/" THEN JsStr(WP_BASE_URL \o u.s)
  ELSE u

\* The acf (or meta) object of a post, and a post without one: {}.
NoAcf ==
  [start_date |-> JsUndef, date |-> JsUndef, start |-> JsUndef, end_date |-> JsUndef,
   end |-> JsUndef, venue |-> JsUndef, availability |-> JsUndef, price_from |-> JsUndef]
Acfs ==
  { NoAcf,
    [NoAcf EXCEPT !.start_date = JsStr(<<"2", "0", "2", "5", "-", "0", "9", "-", "0", "1">>), !.end = JsStr(<<"2", "0", "2", "5", "-", "0", "9", "-", "0", "2">>),
                  !.venue = JsStr(<<"H", "a", "l", "l">>), !.availability = JsNum(0),
                  !.price_from = JsNull],
    [NoAcf EXCEPT !.date = JsNum(3), !.venue = JsStr(<<>>),
                  !.price_from = JsStr(<<"1", "2">>)] }

\* The embedded terms of a post, flattened.
TermLists ==
  { <<>>,
    <<[taxonomy |-> JsStr(<<"c", "a", "t", "e", "g", "o", "r", "y">>), name |-> JsStr(<<"M", "u", "s", "i", "c">>)]>>,
    <<[taxonomy |-> JsStr(<<"c", "a", "t", "e", "g", "o", "r", "y">>), name |-> JsStr(<<"M", "u", "s", "i", "c">>)],
      [taxonomy |-> JsStr(<<"E", "v", "e", "n", "t", "-", "t", "y", "p", "e">>), name |-> JsStr(<<"G", "i", "g">>)]>>,
    <<[taxonomy |-> JsUndef, name |-> JsStr(<<"L", "o", "o", "s", "e">>)],
      [taxonomy |-> JsStr(<<"c", "a", "t", "e", "g", "o", "r", "y">>), name |-> JsStr(<<>>)]>> }

\* x[0] of a list of values
First(vs) == IF vs = <<>> THEN JsUndef ELSE vs[1]

\* obj?.rendered: the rendered field when obj is an object.
rendered(obj, r) == IF obj.t = "object" THEN r ELSE JsUndef

\* mapFromWpPost(p)
mapFromWpPost(p) ==
  LET contentHtml == Or(rendered(p.content, p.contentRendered), JsStr(<<>>))
      names(keep(_)) ==
        LET kept == SelectSeq(p.terms, LAMBDA t : keep(t) /\ Truthy(t.name))
        IN  [i \in 1..Len(kept) |-> kept[i].name]
      cats == names(LAMBDA t : t.taxonomy = JsStr(<<"c", "a", "t", "e", "g", "o", "r", "y">>))
      eventCats ==
        names(LAMBDA t : Includes(toLowerCase(String(t.taxonomy)), <<"e", "v", "e", "n", "t">>))
      acf == p.acf
  IN  [id |-> JsStr(String(p.id)),
       title |-> Or(rendered(p.title, p.titleRendered), JsStr(<<>>)),
       start |-> Or(Or(Or(acf.start_date, acf.date), acf.start), JsNull),
       end |-> Or(Or(acf.end_date, acf.end), JsNull),
       venue |-> Or(acf.venue, JsStr(<<>>)),
       category |-> Or(Or(First(eventCats), First(cats)), JsNull),
       url |-> fixHostUrl(Or(p.link, JsNull)),
       availability |-> Nullish(acf.availability, JsNull),
       price_from |-> Nullish(acf.price_from, JsNull),
       content_0_text |-> JsStr(Take(stripTags(contentHtml.s), 1200))]

\* getEventById from line 150 on: the record made of the answer data for
\* the asked id.
detailRecord(data, id) ==
  IF Truthy(data.id) /\ Truthy(data.title) /\ Truthy(data.content)
    THEN mapFromWpPost(data)
    ELSE [id |-> JsStr(String(Or(data.id, id))),
          title |-> Or(Or(rendered(data.title, data.titleRendered), data.title),
                       JsStr(<<>>)),
          start |-> JsNull, end |-> JsNull, venue |-> JsStr(<<>>),
          category |-> JsNull,
          url |-> fixHostUrl(Or(data.link, JsNull)),
          availability |-> JsNull, price_from |-> JsNull,
          content_0_text |->
            JsStr(Take(stripTags(Or(rendered(data.content, data.contentRendered),
                                    JsStr(<<>>)).s), 1200))]

\* The values the upstream can put into id and title, and the rendered text
\* of a title or content object.
UpstreamIds ==
  {JsUndef, JsNull, JsNum(0), JsNum(7), JsStr(<<>>), JsStr(<<"7">>), JsArr}
UpstreamTitles == {JsUndef, JsNull, JsStr(<<>>), JsStr(<<"J", "a", "z", "z">>), JsNum(5), JsObj}
Renderings == {JsUndef, JsStr(<<>>), JsStr(<<"<", "p", ">", "J", "a", "z", "z", " ", "<", "b", ">", "N", "i", "g", "h", "t", "<", "/", "b", ">", "<", "/", "p", ">">>)}

\* The items of the upstream list.
ListShapes ==
  [id : UpstreamIds, title : UpstreamTitles, post_title : {JsUndef, JsStr(<<"O", "l", "d">>)}]

\* The answers of a detail endpoint.
DetailShapes ==
  [id : UpstreamIds, title : UpstreamTitles, titleRendered : Renderings,
   content : {JsUndef, JsObj}, contentRendered : {JsStr(<<"<", "p", ">", "H", "i", "<", "/", "p", ">">>)},
   link : {JsUndef, JsStr(<<"/", "e", "/", "7">>)}, acf : Acfs, terms : TermLists]

\* The limit and the q of the call that filled the list slot.
NoFiller == [limit |-> 0, q |-> <<>>]

NoItem == [id |-> JsUndef, title |-> JsUndef]
NoDetail ==
  [id |-> JsUndef, title |-> JsUndef, start |-> JsUndef, end |-> JsUndef,
   venue |-> JsUndef, category |-> JsUndef, url |-> JsUndef,
   availability |-> JsUndef, price_from |-> JsUndef, content_0_text |-> JsUndef]

----------------------------------------------------------------------------
(* The answer: index.js builtinBuildAnswer, ai.js askAI, and the buildAnswer *)
(* of the other version of ai.js                                            *)

SHOW_LIMIT == 10

\* shown.map(e => ({ id: String(e.id), title: e.title }))
hitOf(e) == [id |-> JsStr(String(e.id)), title |-> e.title]
hitsOf(shown) == [i \in 1..Len(shown) |-> hitOf(shown[i])]

NoneFound == <<"I", " ", "c", "o", "u", "l", "d", "n", "rsquo", "t", " ", "f", "i", "n", "d", " ", "a", "n", "y", " ", "e", "v", "e", "n", "t", "s">>
Found(total) ==
  <<"I", " ", "f", "o", "u", "n", "d", " ">> \o Str(total) \o <<" ", "e", "v", "e", "n", "t">> \o (IF total = 1 THEN <<>> ELSE <<"s">>)
ShowingUpTo(n) == <<".", " ", "S", "h", "o", "w", "i", "n", "g", " ", "u", "p", " ", "t", "o", " ">> \o Str(n) \o <<".">>

\* index.js builtinBuildAnswer and ai.js askAI: const facet = parts.length ?
\* ` ${parts.join(" ")}` : "", then " for" + facet or " for " + facet.
preface(parts, total, shown) ==
  LET facet == IF parts # <<>> THEN <<" ">> \o Join(parts, <<" ">>) ELSE <<>>
  IN  IF total = 0
        THEN NoneFound \o (IF facet # <<>> THEN <<" ", "f", "o", "r">> \o facet ELSE <<>>) \o <<".">>
        ELSE Found(total) \o (IF facet # <<>> THEN <<" ", "f", "o", "r", " ">> \o facet ELSE <<>>)
               \o ShowingUpTo(Len(shown))

\* index.js builtinBuildAnswer, with its sentence written out.
builtinAnswer(parts, total, shown) ==
  [answer |-> preface(parts, total, shown),
   hits |-> IF total = 0 THEN <<>> ELSE shown]

\* ai.js askAI from const total = filtered.length on.
askAIAnswer(parts, filtered) ==
  LET shown == hitsOf(Take(filtered, SHOW_LIMIT))
  IN  [answer |-> preface(parts, Len(filtered), shown), hits |-> shown]

\* buildAnswer of the ai.js that exports it.
buildAnswer(parts, total, shown) ==
  LET facet == IF parts # <<>> THEN <<" ", "f", "o", "r", " ">> \o Join(parts, <<" ">>) ELSE <<>>
  IN  [answer |-> IF total = 0
                    THEN NoneFound \o facet \o <<".">>
                    ELSE Found(total) \o facet
                           \o ShowingUpTo(Min(SHOW_LIMIT, Len(shown))),
       hits |-> hitsOf(shown)]

\* The facets an answer is built for.
PartsChoices ==
  { <<>>,
    << <<"c", "o", "m", "e", "d", "y">> >>,
    << <<"c", "o", "m", "e", "d", "y">>, <<"t", "o", "d", "a", "y">> >>,
    << <<"a", "b", "o", "u", "t", " ", "dquote", "T", "h", "e", " ", "M", "a", "c", "c", "a", "b", "e", "e", "s", "dquote">> >>,
    << <<"c", "o", "m", "e", "d", "y", ",", " ", "m", "u", "s", "i", "c">> >>,
    << <<"w", "h", "a", "t", "'", "s", " ", "o", "n">> >> }

\* The limits of /ai/ask under which an answer is built.
AnswerLimits == {1, SHOW_LIMIT, 11, 20}

AnswerImpls == {"index.js", "ai.js", "part_004"}

\* What the assistant returns: the first or the second guidance text, an
\* answer, or a throw.
NoOutcome == [kind |-> "none", total |-> 0, answer |-> <<>>, hits |-> <<>>]

\* What a reading of a message gives: the categories reported, the name
\* filter, the date labels, the what's-on intent, the query for findEvents
\* and the facets of the sentence.
NoReading ==
  [text |-> <<>>, cats |-> <<>>, name |-> <<>>, dates |-> <<>>, whatsOn |-> FALSE,
   q |-> <<>>, parts |-> <<>>]

IdleNl ==
  [op |-> "none", impl |-> "none", parts |-> <<>>, total |-> 0, limit |-> 0,
   shown |-> <<>>, answer |-> <<>>, hits |-> <<>>,
   raw |-> <<>>, reading |-> NoReading, pc |-> "none", out |-> NoOutcome,
   item |-> NoItem, detail |-> NoDetail,
   asked |-> 0, rows |-> <<>>, filler |-> NoFiller]

\* An answer is built for the first total records of the list: by /ai/ask
\* with either pair of helpers (rows.slice(0, limit), then buildAnswer), or by
\* askAI.
BuildAnswer ==
  /\ nl.op = "none"
  /\ \E impl \in AnswerImpls, parts \in PartsChoices, total \in 0..MaxRows,
        limit \in AnswerLimits :
       LET rows == Listed(total)
           lim == IF impl = "ai.js" THEN SHOW_LIMIT ELSE limit
           shown == Take(rows, lim)
           r == CASE impl = "index.js" -> builtinAnswer(parts, total, shown)
                  [] impl = "part_004" -> buildAnswer(parts, total, shown)
                  [] impl = "ai.js" -> askAIAnswer(parts, rows)
       IN  nl' = [IdleNl EXCEPT !.op = "answer", !.impl = impl, !.parts = parts,
                    !.total = total, !.limit = lim, !.shown = shown,
                    !.answer = r.answer, !.hits = r.hits]
  /\ UNCHANGED <<client, streamChatFn, apiKey, chat, ask, aiAsk, dataVars>>

----------------------------------------------------------------------------
(* The reading of a message: ai.js askAI, the classifyQuery of the other    *)
(* version of ai.js, and index.js builtinClassifyQuery                      *)

\* ai.js CATEGORY_KEYWORDS, in the order of its keys.
CATEGORY_KEYWORDS ==
  << [cat |-> <<"c", "o", "m", "e", "d", "y">>,
      kws |-> << <<"c", "o", "m", "e", "d", "y">>,
               <<"s", "t", "a", "n", "d", "-", "u", "p">>,
               <<"s", "t", "a", "n", "d", "u", "p">>,
               <<"c", "o", "m", "e", "d", "i", "a", "n">>,
               <<"l", "a", "u", "g", "h">> >>],
     [cat |-> <<"m", "u", "s", "i", "c">>,
      kws |-> << <<"m", "u", "s", "i", "c">>,
               <<"c", "o", "n", "c", "e", "r", "t">>,
               <<"g", "i", "g">>,
               <<"b", "a", "n", "d">>,
               <<"f", "e", "s", "t", "i", "v", "a", "l">> >>],
     [cat |-> <<"f", "a", "m", "i", "l", "y">>,
      kws |-> << <<"f", "a", "m", "i", "l", "y">>,
               <<"k", "i", "d", "s">>,
               <<"c", "h", "i", "l", "d", "r", "e", "n">> >>],
     [cat |-> <<"s", "p", "o", "r", "t", "s">>,
      kws |-> << <<"s", "p", "o", "r", "t">>,
               <<"s", "p", "o", "r", "t", "s">>,
               <<"s", "n", "o", "o", "k", "e", "r">>,
               <<"b", "o", "x", "i", "n", "g">>,
               <<"c", "u", "p">>,
               <<"r", "a", "c", "e">> >>],
     [cat |-> <<"d", "a", "n", "c", "e">>,
      kws |-> << <<"d", "a", "n", "c", "e">>,
               <<"b", "a", "l", "l", "e", "t">>,
               <<"c", "h", "o", "r", "e", "o", "g", "r", "a", "p", "h", "y">> >>],
     [cat |-> <<"e", "x", "h", "i", "b", "i", "t", "i", "o", "n">>,
      kws |-> << <<"e", "x", "h", "i", "b", "i", "t", "i", "o", "n">>,
               <<"e", "x", "p", "o">>,
               <<"s", "h", "o", "w", "c", "a", "s", "e">>,
               <<"f", "a", "i", "r">> >>] >>

\* CATEGORY_SYNONYMS of the other version, in the order of its keys.
CATEGORY_SYNONYMS ==
  << [cat |-> <<"m", "u", "s", "i", "c">>,
      kws |-> << <<"c", "o", "n", "c", "e", "r", "t">>,
               <<"g", "i", "g">>,
               <<"b", "a", "n", "d">>,
               <<"o", "r", "c", "h", "e", "s", "t", "r", "a">>,
               <<"l", "i", "v", "e">>,
               <<"t", "o", "u", "r">>,
               <<"f", "e", "s", "t", "i", "v", "a", "l">>,
               <<"d", "j">>,
               <<"s", "i", "n", "g", "e", "r">>,
               <<"c", "h", "o", "i", "r">>,
               <<"p", "e", "r", "f", "o", "r", "m", "a", "n", "c", "e">> >>],
     [cat |-> <<"c", "o", "m", "e", "d", "y">>,
      kws |-> << <<"c", "o", "m", "e", "d", "y">>,
               <<"c", "o", "m", "e", "d", "i", "a", "n">>,
               <<"s", "t", "a", "n", "d", " ", "u", "p">>,
               <<"s", "t", "a", "n", "d", "-", "u", "p">>,
               <<"s", "t", "a", "n", "d", "u", "p">>,
               <<"c", "o", "m", "i", "c">> >>],
     [cat |-> <<"f", "a", "m", "i", "l", "y">>,
      kws |-> << <<"f", "a", "m", "i", "l", "y">>,
               <<"k", "i", "d", "s">>,
               <<"c", "h", "i", "l", "d", "r", "e", "n">>,
               <<"c", "h", "i", "l", "d">>,
               <<"f", "a", "m", "i", "l", "y", "-", "f", "r", "i", "e", "n", "d", "l", "y">>,
               <<"f", "a", "m", "i", "l", "y", " ", "f", "r", "i", "e", "n", "d", "l", "y">> >>],
     [cat |-> <<"s", "p", "o", "r", "t", "s">>,
      kws |-> << <<"s", "p", "o", "r", "t">>,
               <<"s", "p", "o", "r", "t", "s">>,
               <<"b", "o", "x", "i", "n", "g">>,
               <<"s", "n", "o", "o", "k", "e", "r">>,
               <<"c", "y", "c", "l", "i", "n", "g">>,
               <<"f", "o", "o", "t", "b", "a", "l", "l">>,
               <<"t", "e", "n", "n", "i", "s">>,
               <<"r", "u", "n">>,
               <<"m", "a", "r", "a", "t", "h", "o", "n">>,
               <<"i", "c", "e", " ", "h", "o", "c", "k", "e", "y">>,
               <<"h", "o", "c", "k", "e", "y">> >>],
     [cat |-> <<"d", "a", "n", "c", "e">>,
      kws |-> << <<"d", "a", "n", "c", "e">>,
               <<"b", "a", "l", "l", "e", "t">>,
               <<"c", "o", "n", "t", "e", "m", "p", "o", "r", "a", "r", "y">>,
               <<"h", "i", "p", " ", "h", "o", "p">>,
               <<"h", "i", "p", "-", "h", "o", "p">> >>],
     [cat |-> <<"t", "h", "e", "a", "t", "r", "e">>,
      kws |-> << <<"t", "h", "e", "a", "t", "r", "e">>,
               <<"t", "h", "e", "a", "t", "e", "r">>,
               <<"p", "l", "a", "y">>,
               <<"d", "r", "a", "m", "a">>,
               <<"s", "t", "a", "g", "e">> >>],
     [cat |-> <<"f", "i", "l", "m">>,
      kws |-> << <<"f", "i", "l", "m">>,
               <<"c", "i", "n", "e", "m", "a">>,
               <<"m", "o", "v", "i", "e">>,
               <<"s", "c", "r", "e", "e", "n", "i", "n", "g">> >>],
     [cat |-> <<"f", "e", "s", "t", "i", "v", "a", "l">>,
      kws |-> << <<"f", "e", "s", "t", "i", "v", "a", "l">>,
               <<"f", "a", "i", "r">>,
               <<"m", "a", "r", "k", "e", "t">>,
               <<"s", "t", "r", "e", "e", "t", " ", "f", "a", "i", "r">> >>],
     [cat |-> <<"e", "x", "h", "i", "b", "i", "t", "i", "o", "n">>,
      kws |-> << <<"e", "x", "h", "i", "b", "i", "t", "i", "o", "n">>,
               <<"e", "x", "p", "o">>,
               <<"s", "h", "o", "w", "c", "a", "s", "e">>,
               <<"g", "a", "l", "l", "e", "r", "y">>,
               <<"a", "r", "t", " ", "s", "h", "o", "w">> >>] >>

\* index.js builtinClassifyQuery: categories.
builtinCategories ==
  << <<"c", "o", "m", "e", "d", "y">>, <<"m", "u", "s", "i", "c">>, <<"f", "a", "m", "i", "l", "y">>, <<"s", "p", "o", "r", "t">>, <<"s", "p", "o", "r", "t", "s">>, <<"d", "a", "n", "c", "e">>, <<"e", "x", "h", "i", "b", "i", "t", "i", "o", "n">> >>

\* Some keyword of the row occurs in the lowercased text.
RowMatches(row, t) == \E i \in DOMAIN row.kws : Includes(t, row.kws[i])

\* A detectCategory that reports every category with a keyword in the text.
matchingAll(table, text, byName) ==
  LET t == toLowerCase(text)
      hit(i) == RowMatches(table[i], t) \/ (byName /\ Includes(t, table[i].cat))
  IN  SelectSeq([i \in DOMAIN table |-> IF hit(i) THEN table[i].cat ELSE <<>>],
                LAMBDA c : c # <<>>)

\* for (const [cat, kws] of Object.entries(table)) if (...) return cat: the
\* first row with a keyword in the text, as a list of one, or the empty list.
\* byName: || t.includes(cat), which only the other version has.
matchingFirst(table, text, byName) ==
  LET t == toLowerCase(text)
      hit(i) == RowMatches(table[i], t) \/ (byName /\ Includes(t, table[i].cat))
  IN  IF \E i \in DOMAIN table : hit(i)
        THEN <<table[CHOOSE i \in DOMAIN table :
                       hit(i) /\ \A h \in 1..(i - 1) : ~hit(h)].cat>>
        ELSE <<>>

\* ai.js detectCategory
detectCategory(text) == matchingFirst(CATEGORY_KEYWORDS, text, FALSE)
\* detectCategory of the other version
detectCategorySyn(text) == matchingFirst(CATEGORY_SYNONYMS, text, TRUE)

\* The alternatives of the regular expression of detectWhatsOn; between the
\* words of the first two it takes any run of blanks.
WhatsOnPhrases ==
  << <<"w", "h", "a", "t", "'", "s", " ", "o", "n">>, <<"w", "h", "a", "t", "s", " ", "o", "n">>, <<"w", "h", "a", "t", " ", "i", "s", " ", "o", "n">>, <<"a", "n", "y", "t", "h", "i", "n", "g", " ", "o", "n">>, <<"e", "v", "e", "n", "t", "s">>, <<"s", "h", "o", "w", "s">>, <<"w", "h", "a", "t", " ", "t", "o", " ", "s", "e", "e">>, <<"w", "h", "a", "t", " ", "t", "o", " ", "d", "o">>, <<"h", "a", "p", "p", "e", "n", "i", "n", "g">> >>
detectWhatsOn(text) ==
  LET t == collapse(toLowerCase(text))
  IN  \E i \in DOMAIN WhatsOnPhrases : Includes(t, WhatsOnPhrases[i])

DateLabels ==
  << <<"t", "o", "d", "a", "y">>, <<"t", "o", "m", "o", "r", "r", "o", "w">>, <<"t", "h", "i", "s", " ", "w", "e", "e", "k", "e", "n", "d">>, <<"t", "h", "i", "s", " ", "w", "e", "e", "k">>, <<"n", "e", "x", "t", " ", "w", "e", "e", "k">> >>
\* detectDateLabel: the first of the labels that occurs as words, as a list of
\* one, or the empty list.
detectDateLabel(text) ==
  LET t == toLowerCase(text)
      hit(i) == HasWord(t, DateLabels[i])
  IN  IF \E i \in DOMAIN DateLabels : hit(i)
        THEN <<DateLabels[CHOOSE i \in DOMAIN DateLabels :
                            hit(i) /\ \A h \in 1..(i - 1) : ~hit(h)]>>
        ELSE <<>>

\* [\w\s\-&']
IsNameChar(c) == IsWord(c) \/ IsSpace(c) \/ c \in {"-", "&", "'"}

\* /\bkw\s+([a-z0-9][\w\s\-&']{2,})$/i matches with kw at i; the text it
\* is applied to has single blanks.
PhraseAt(text, kw, i) ==
  LET from == i + Len(kw) + 1
  IN  /\ At(toLowerCase(text), kw, i)
      /\ (i = 1 \/ ~IsWord(text[i - 1]))
      /\ from <= Len(text) /\ IsSpace(text[from - 1])
      /\ Len(text) - from + 1 >= 3
      /\ IsAlnum(text[from])
      /\ \A j \in (from + 1)..Len(text) : IsNameChar(text[j])

\* The phrase after the first about, or after the first called or named.
trailingPhrase(text, kws) ==
  LET hit(i) == \E kw \in kws : PhraseAt(text, kw, i)
  IN  IF \E i \in 1..Len(text) : hit(i)
        THEN LET i == CHOOSE i \in 1..Len(text) : hit(i) /\ \A h \in 1..(i - 1) : ~hit(h)
                 kw == CHOOSE kw \in kws : PhraseAt(text, kw, i)
             IN  trim(SubSeq(text, i + Len(kw) + 1, Len(text)))
        ELSE <<>>

\* A detectNameish for which a date label does not make the text generic.
detectNameishDateBlind(text) ==
  LET q == detectQuotedName(text)
      about == trailingPhrase(text, {<<"a", "b", "o", "u", "t">>})
      called == trailingPhrase(text, {<<"c", "a", "l", "l", "e", "d">>, <<"n", "a", "m", "e", "d">>})
      generic == detectWhatsOn(text) \/ detectCategory(text) # <<>>
  IN  IF q # <<>> THEN q
      ELSE IF about # <<>> THEN about
      ELSE IF called # <<>> THEN called
      ELSE IF ~generic /\ Len(text) >= 3 THEN trim(text)
      ELSE <<>>

\* ai.js detectNameish; the empty text stands for null.
detectNameish(text) ==
  LET q == detectQuotedName(text)
      about == trailingPhrase(text, {<<"a", "b", "o", "u", "t">>})
      called == trailingPhrase(text, {<<"c", "a", "l", "l", "e", "d">>, <<"n", "a", "m", "e", "d">>})
      generic == \/ detectWhatsOn(text) \/ detectCategory(text) # <<>>
                 \/ detectDateLabel(text) # <<>>
  IN  IF q # <<>> THEN q
      ELSE IF about # <<>> THEN about
      ELSE IF called # <<>> THEN called
      ELSE IF ~generic /\ Len(text) >= 3 THEN trim(text)
      ELSE <<>>

\* ai.js askAI, lines 88 to 100 and 149 to 152.
readAskAI(rawText) ==
  LET text == normalizeText(rawText)
      cat == detectCategory(text)
      nameQ == detectNameish(text)
      dateLabel == detectDateLabel(text)
  IN  IF text = <<>> THEN NoReading
      ELSE [text |-> text, cats |-> cat, name |-> nameQ, dates |-> dateLabel,
            whatsOn |-> detectWhatsOn(text), q |-> nameQ,
            parts |-> cat
                      \o (IF nameQ # <<>>
                            THEN << <<"a", "b", "o", "u", "t", " ", "dquote">> \o nameQ \o <<"dquote">> >> ELSE <<>>)
                      \o dateLabel]

\* buildSearchQ of the other version.
buildSearchQ(text) ==
  LET quoted == detectQuotedName(text)
      cat == detectCategorySyn(text)
      syns == IF cat = <<>> THEN <<>>
              ELSE (CHOOSE i \in DOMAIN CATEGORY_SYNONYMS :
                      CATEGORY_SYNONYMS[i].cat = cat[1])
      qParts == <<IF quoted # <<>> THEN quoted ELSE text>>
                  \o (IF cat = <<>> THEN <<>> ELSE CATEGORY_SYNONYMS[syns].kws)
  IN  Join(dedupe(splitSpaces(toLowerCase(Join(qParts, <<" ">>)), <<>>), {}), <<" ">>)

\* classifyQuery of the other version.
classifyQuery(rawMessage) ==
  LET text == normalizeText(rawMessage)
      cat == detectCategorySyn(text)
      quoted == detectQuotedName(text)
      dateLabel == detectDateLabel(text)
      whatsOn == detectWhatsOn(text)
  IN  IF text = <<>> THEN NoReading
      ELSE [text |-> text, cats |-> cat, name |-> quoted, dates |-> dateLabel,
            whatsOn |-> whatsOn, q |-> buildSearchQ(text),
            parts |-> cat
                      \o (IF quoted # <<>>
                            THEN << <<"a", "b", "o", "u", "t", " ", "dquote">> \o quoted \o <<"dquote">> >> ELSE <<>>)
                      \o dateLabel
                      \o (IF cat = <<>> /\ quoted = <<>> /\ whatsOn
                            THEN << <<"w", "h", "a", "t", "'", "s", " ", "o", "n">> >> ELSE <<>>)]

\* The junk of builtinClassifyQuery, in its order.
junk ==
  << <<"w", "h", "a", "t", "'", "s", " ", "o", "n">>, <<"w", "h", "a", "t", "s", " ", "o", "n">>, <<"w", "h", "a", "t", " ", "i", "s", " ", "o", "n">>, <<"s", "h", "o", "w", " ", "m", "e">>, <<"e", "v", "e", "n", "t", "s">>, <<"e", "v", "e", "n", "t">>, <<"a", "b", "o", "u", "t">> >>

RECURSIVE stripJunk(_, _)
\* junk.reduce((s, j) => s.replace(j, ""), txt), from the i-th on.
stripJunk(t, i) ==
  IF i > Len(junk) THEN t ELSE stripJunk(replaceFirst(t, junk[i]), i + 1)

\* index.js builtinClassifyQuery, of the message the handler has trimmed.
builtinClassifyText(message) ==
  LET txt == toLowerCase(message)
      foundCats == SelectSeq(builtinCategories, LAMBDA c : Includes(txt, c))
      quoted == quotedFrom(txt, 1)
      dateHints ==
        (IF HasWord(txt, <<"t", "o", "d", "a", "y">>) THEN << <<"t", "o", "d", "a", "y">> >> ELSE <<>>)
        \o (IF HasWord(txt, <<"t", "o", "m", "o", "r", "r", "o", "w">>) THEN << <<"t", "o", "m", "o", "r", "r", "o", "w">> >> ELSE <<>>)
        \o (IF HasWord(txt, <<"t", "h", "i", "s", " ", "w", "e", "e", "k", "e", "n", "d">>) THEN << <<"w", "e", "e", "k", "e", "n", "d">> >>
             ELSE IF HasWord(txt, <<"t", "h", "i", "s", " ", "w", "e", "e", "k">>) THEN << <<"w", "e", "e", "k">> >> ELSE <<>>)
      q == IF quoted # <<>> THEN Join(quoted, <<" ">>)
           ELSE IF foundCats # <<>> THEN Join(foundCats, <<" ">>)
           ELSE trim(stripJunk(txt, 1))
  IN  [text |-> message, cats |-> foundCats, name |-> Join(quoted, <<" ">>),
       dates |-> dateHints, whatsOn |-> FALSE, q |-> q,
       parts |-> (IF foundCats # <<>> THEN <<Join(foundCats, <<",", " ">>)>> ELSE <<>>)
                 \o (IF dateHints # <<>> THEN <<Join(dateHints, <<",", " ">>)>> ELSE <<>>)
                 \o (IF quoted # <<>>
                       THEN << <<"ldquo">> \o Join(quoted, <<" ", "rdquo", " ", "ldquo">>) \o <<"rdquo">> >>
                       ELSE <<>>)]

\* The words messages are made of, and the messages: up to MaxWords words
\* with one blank between them.
MaxWords == 3
Words ==
  { <<"w", "h", "a", "t">>, <<"w", "h", "a", "t", "'", "s", " ", "o", "n">>, <<"i", "s", " ", "o", "n">>, <<"c", "o", "m", "e", "d", "y">>, <<"m", "u", "s", "i", "c">>,
    <<"e", "v", "e", "n", "t", "s", " ", "a", "b", "o", "u", "t">>, <<"dquote", "T", "h", "e", " ", "M", "a", "c", "c", "a", "b", "e", "e", "s", "dquote">>, <<"ldquo", "T", "h", "e", " ", "M", "a", "c", "c", "a", "b", "e", "e", "s", "rdquo">>,
    <<"j", "a", "z", "z">>, <<"U", "2">>, <<"c", "u", "p", "c", "a", "k", "e", "s">>, <<"t", "o", "d", "a", "y">>, <<"t", "o", "m", "o", "r", "r", "o", "w">>, <<" ">> }
TextMessages ==
  {Join(ws, <<" ">>) : ws \in UNION {[1..n -> Words] : n \in 1..MaxWords}}

ReadImpls == {"index.js", "ai.js", "part_004"}

\* The reading of the message by the helpers in use.
readBy(impl, raw) ==
  CASE impl = "ai.js" -> readAskAI(raw)
    [] impl = "part_004" -> classifyQuery(trim(raw))
    [] impl = "index.js" -> builtinClassifyText(trim(raw))

\* A message is read: by askAI, or by /ai/ask with either classifier, after
\* the handler's trim.
Classify ==
  /\ nl.op = "none"
  /\ \E impl \in ReadImpls, raw \in TextMessages :
       /\ impl = "ai.js" \/ trim(raw) # <<>>
       /\ nl' = [IdleNl EXCEPT !.op = "read", !.impl = impl, !.raw = raw,
                   !.reading = readBy(impl, raw)]
  /\ UNCHANGED <<client, streamChatFn, apiKey, chat, ask, aiAsk, dataVars>>

----------------------------------------------------------------------------
(* The records findEvents and getEventById return for an upstream answer    *)

\* findEvents maps an item of the upstream list.
MapItem ==
  /\ nl.op = "none"
  /\ \E e \in ListShapes :
       nl' = [IdleNl EXCEPT !.op = "item", !.item = mapListItem(e)]
  /\ UNCHANGED <<client, streamChatFn, apiKey, chat, ask, aiAsk, dataVars>>

\* getEventById takes the first answer that has an id or a title
\* (line 143) and makes its record of it; the id asked for is "7".
MapDetail ==
  /\ nl.op = "none"
  /\ \E d \in DetailShapes :
       /\ Truthy(d.id) \/ Truthy(d.title)
       /\ nl' = [IdleNl EXCEPT !.op = "detail",
                   !.detail = detailRecord(d, JsStr(<<"7">>))]
  /\ UNCHANGED <<client, streamChatFn, apiKey, chat, ask, aiAsk, dataVars>>

----------------------------------------------------------------------------
(* findEvents({ limit, q }) with the rows of the list slot                  *)

\* pool.filter((e) => (e.title || "").toLowerCase().includes(q)), q in lower case
titleFilter(pool, q) ==
  SelectSeq(pool, LAMBDA e : Includes(toLowerCase(e.title.s), toLowerCase(q)))

\* findEvents({ limit, q }) once it has the list: the filter, then the slice.
findEventsOut(list, limit, q) ==
  Take(IF q # <<>> THEN titleFilter(list, q) ELSE list, limit)

MaxFinds == 2
FindLimits == {1, 2, 50}
FindQs == { <<>>, <<"j", "a", "z", "z">>, <<"J", "A", "Z", "Z">>, <<"T", "o", "m", "o", "r", "r", "o", "w", " ", "1">>, <<"o", "p", "e", "r", "a">> }

\* A findEvents that keeps what it returns.
slotRowsReturned(mapped, limit, q) == findEventsOut(mapped, limit, q)
\* listCache = { ts: now(), data: mapped }: the rows findEvents keeps.
slotRows(mapped, limit, q) == mapped

\* The list slot with the rows it holds.
WithRows(d, rows) == [old |-> d.old, pre |-> d.pre, form |-> d.form, rows |-> rows]

\* findEvents({ limit, q }) up to the await of fetchJson, and to its return
\* when the slot is fresh.
FindEvents ==
  /\ nl.op = "none" \/ (nl.op = "find" /\ nl.pc = "done")
  /\ nl.asked < MaxFinds
  /\ \E limit \in FindLimits, q \in FindQs :
       LET st == [IdleNl EXCEPT !.op = "find", !.limit = limit, !.raw = q,
                    !.asked = nl.asked + 1, !.filler = nl.filler]
       IN  nl' = IF ListFresh
                   THEN [st EXCEPT !.pc = "done", !.impl = "cache",
                           !.rows = findEventsOut(listCache.data.rows, limit, q)]
                   ELSE [st EXCEPT !.pc = "fetch"]
  /\ UNCHANGED <<client, streamChatFn, apiKey, chat, ask, aiAsk, dataVars>>

\* findEvents after the await: the upstream list is mapped, kept and
\* filtered, or the throw of fetchJson is the call's.
FindEventsReturn ==
  /\ nl.op = "find" /\ nl.pc = "fetch"
  /\ \E o \in ListResponses :
       IF o = "error"
         THEN /\ nl' = [nl EXCEPT !.pc = "done", !.impl = "thrown"]
              /\ UNCHANGED listCache
         ELSE LET mapped == Listed(MaxRows) IN
              /\ listCache' =
                   [ts |-> now,
                    data |-> WithRows(Mapped(FreshData), slotRows(mapped, nl.limit, nl.raw))]
              /\ nl' = [nl EXCEPT !.pc = "done", !.impl = "upstream",
                          !.rows = findEventsOut(mapped, nl.limit, nl.raw),
                          !.filler = [limit |-> nl.limit, q |-> nl.raw]]
  /\ UNCHANGED <<now, ticks, detailCache, recent, emitted, resp, hookLog,
                 unannounced, calls>>
  /\ UNCHANGED <<client, streamChatFn, apiKey, chat, ask, aiAsk>>

----------------------------------------------------------------------------
(* The assistant's answer to a message: ai.js askAI, and POST /ai/ask with  *)
(* either pair of helpers                                                   *)

\* The list findEvents holds or fetches.
Pool == Listed(MaxRows)

Rejected == [kind |-> "rejected", total |-> 0, answer |-> <<>>, hits |-> <<>>]

\* ai.js askAI from line 104 on, with the pool findEvents({ limit: 500 })
\* returned.  The records of findEvents have no category, so the category
\* filter looks in the title.
askAIFrom(r, pool) ==
  LET byName == IF r.name # <<>> THEN titleFilter(pool, r.name) ELSE pool
      filtered == IF r.cats # <<>> THEN titleFilter(byName, r.cats[1]) ELSE byName
      a == askAIAnswer(r.parts, filtered)
  IN  IF ~r.whatsOn /\ r.cats = <<>> /\ r.name = <<>>
        THEN [kind |-> "guidance", total |-> 0, answer |-> <<"I", " ", "c", "a", "n", " ", "h", "e", "l", "p", " ", "y", "o", "u", " ", "f", "i", "n", "d", " ", "e", "v", "e", "n", "t", "s", ".">>,
              hits |-> <<>>]
        ELSE [kind |-> "answer", total |-> Len(filtered), answer |-> a.answer,
              hits |-> a.hits]

\* POST /ai/ask from line 199 on, with the rows findEvents({ limit: 100, q })
\* returned and no limit in the body.
aiAskFrom(impl, r, rows) ==
  LET shown == Take(rows, 10)
      a == IF impl = "index.js" THEN builtinAnswer(r.parts, Len(rows), shown)
           ELSE buildAnswer(r.parts, Len(rows), shown)
  IN  [kind |-> "answer", total |-> Len(rows), answer |-> a.answer, hits |-> a.hits]

\* What the message is answered with, given the list findEvents works on.
outcomeOf(impl, raw, list) ==
  LET r == readBy(impl, raw)
  IN  IF impl = "ai.js" THEN askAIFrom(r, findEventsOut(list, 500, <<>>))
      ELSE aiAskFrom(impl, r, findEventsOut(list, 100, r.q))

\* The messages the assistant is asked: up to MaxAskWords of these words.
MaxAskWords == 2
AskWords ==
  { <<"j", "a", "z", "z">>, <<"U", "2">>, <<"c", "o", "m", "e", "d", "y">>, <<"w", "h", "a", "t", "'", "s", " ", "o", "n">>, <<"t", "o", "d", "a", "y">>, <<"t", "o", "m", "o", "r", "r", "o", "w">>,
    <<"dquote", "T", "h", "e", " ", "M", "a", "c", "c", "a", "b", "e", "e", "s", "dquote">>, <<" ">> }
AskMessages ==
  {Join(ws, <<" ">>) : ws \in UNION {[1..n -> AskWords] : n \in 1..MaxAskWords}}

\* askAI, or POST /ai/ask, up to the await of findEvents, and through it when
\* the list cache is fresh.  askAI returns its first guidance text for an
\* empty message before it reads anything.
AskAssistant ==
  /\ nl.op = "none"
  /\ \E impl \in ReadImpls, raw \in AskMessages :
       /\ impl = "ai.js" \/ trim(raw) # <<>>
       /\ LET r == readBy(impl, raw)
              st == [IdleNl EXCEPT !.op = "ask", !.impl = impl, !.raw = raw,
                       !.reading = r]
          IN  nl' = IF impl = "ai.js" /\ r.text = <<>>
                      THEN [st EXCEPT !.pc = "done",
                              !.out = [kind |-> "ask me", total |-> 0,
                                       answer |-> <<"A", "s", "k", " ", "m", "e", " ", "t", "h", "i", "n", "g", "s", " ", "l", "i", "k", "e">>, hits |-> <<>>]]
                    ELSE IF ListFresh
                      THEN [st EXCEPT !.pc = "done", !.out = outcomeOf(impl, raw, Pool)]
                    ELSE [st EXCEPT !.pc = "fetch"]
  /\ UNCHANGED <<client, streamChatFn, apiKey, chat, ask, aiAsk, dataVars>>

\* findEvents after its fetchJson, and the rest of askAI or of the route: the
\* list is cached and the message answered, or the throw goes to the caller.
AssistantResume ==
  /\ nl.op = "ask" /\ nl.pc = "fetch"
  /\ \E o \in ListResponses :
       IF o = "error"
         THEN /\ nl' = [nl EXCEPT !.pc = "done", !.out = Rejected]
              /\ UNCHANGED listCache
         ELSE /\ listCache' = [ts |-> now, data |-> Mapped(FreshData)]
              /\ nl' = [nl EXCEPT !.pc = "done",
                          !.out = outcomeOf(nl.impl, nl.raw, Pool)]
  /\ UNCHANGED <<now, ticks, detailCache, recent, emitted, resp, hookLog,
                 unannounced, calls>>
  /\ UNCHANGED <<client, streamChatFn, apiKey, chat, ask, aiAsk>>

----------------------------------------------------------------------------
(* The environment *)

\* Time passes.
Tick(D) ==
  /\ ticks < MaxTicks
  /\ \E d \in D : now' = now + d
  /\ ticks' = ticks + 1
  /\ UNCHANGED <<listCache, detailCache, recent, emitted, resp, hookLog,
                 unannounced, calls, chatVars>>

\* The upstream content changes: every body produced so far is older than it.
UpstreamChange ==
  /\ ~unannounced
  /\ unannounced' = TRUE
  /\ listCache' = [listCache EXCEPT !.data = MarkOld(listCache.data)]
  /\ detailCache' = [i \in DOMAIN detailCache |->
                       [detailCache[i] EXCEPT !.data = MarkOld(detailCache[i].data)]]
  /\ calls' = [r \in Reqs |-> [calls[r] EXCEPT !.afterAnn = FALSE,
                                 !.snap = MarkOld(calls[r].snap),
                                 !.data = MarkOld(calls[r].data)]]
  /\ UNCHANGED <<now, ticks, recent, emitted, resp, hookLog, chatVars>>

----------------------------------------------------------------------------

(* web/src/App.jsx: the page that lists the events *)

\* App.jsx 9-15: the state of the component before it is mounted.  `events`
\* is what the list shows ("initial" is the empty list of useState), told
\* apart by when its request started: "current" after the last notification
\* the page received, "old" before it.  `request` is the GET /api/events in
\* flight, told apart the same way.  `owed` says that a notification was
\* received and no GET /api/events has started since.
IdleClient ==
  [mounted |-> FALSE, posts |-> "none", events |-> "initial",
   liveStatus |-> "disconnected", fetchLock |-> FALSE, debounce |-> "none",
   request |-> "none", received |-> 0, owed |-> FALSE]

\* App.jsx 26-39, up to the await of fetch: nothing when the lock is held.
fetchEvents(c) ==
  IF c.fetchLock THEN c
  ELSE [c EXCEPT !.fetchLock = TRUE, !.request = "current", !.owed = FALSE]

\* App.jsx 42-45: the initial load.
Mount ==
  /\ ~client.mounted
  /\ client' = fetchEvents([client EXCEPT !.mounted = TRUE,
                                          !.posts = "loading"])
  /\ UNCHANGED <<streamChatFn, apiKey, chat, ask, aiAsk, nl, dataVars>>

\* App.jsx 17-25: the answer to GET /api/wp/posts, or its failure.
PostsSettle(ok) ==
  /\ client.posts = "loading"
  /\ client' = [client EXCEPT !.posts = IF ok THEN "loaded" ELSE "failed"]
  /\ UNCHANGED <<streamChatFn, apiKey, chat, ask, aiAsk, nl, dataVars>>

\* App.jsx 49-52: the socket is up; what was broadcast while it was down is
\* not delivered.
OnConnect ==
  /\ client.mounted
  /\ client.liveStatus = "disconnected"
  /\ client' = [client EXCEPT !.liveStatus = "connected",
                              !.received = emitted]
  /\ UNCHANGED <<streamChatFn, apiKey, chat, ask, aiAsk, nl, dataVars>>

\* App.jsx 53-56
OnDisconnect ==
  /\ client.liveStatus = "connected"
  /\ client' = [client EXCEPT !.liveStatus = "disconnected"]
  /\ UNCHANGED <<streamChatFn, apiKey, chat, ask, aiAsk, nl, dataVars>>

\* App.jsx 57-63: one broadcast of the server arrives.  The timer is cleared
\* and set again; whatever is shown or under way is now older than the last
\* notification.
OnUpdated ==
  /\ client.liveStatus = "connected"
  /\ client.received < emitted
  /\ client' = [client EXCEPT
                  !.received = @ + 1,
                  !.debounce = "set",
                  !.owed = TRUE,
                  !.events = IF @ = "initial" THEN @ ELSE "old",
                  !.request = IF @ = "none" THEN @ ELSE "old"]
  /\ UNCHANGED <<streamChatFn, apiKey, chat, ask, aiAsk, nl, dataVars>>

\* App.jsx 60-62: the 400 ms have passed.
DebounceFires ==
  /\ client.debounce = "set"
  /\ client' = fetchEvents([client EXCEPT !.debounce = "none"])
  /\ UNCHANGED <<streamChatFn, apiKey, chat, ask, aiAsk, nl, dataVars>>

\* App.jsx 30-38: the answer to GET /api/events is shown, or the request
\* failed and the list stays; the lock is released either way.
EventsSettle(ok) ==
  /\ client.request # "none"
  /\ client' = [client EXCEPT
                  !.events = IF ok THEN client.request ELSE @,
                  !.request = "none",
                  !.fetchLock = FALSE]
  /\ UNCHANGED <<streamChatFn, apiKey, chat, ask, aiAsk, nl, dataVars>>

-----------------------------------------------------------------------------

Init ==
  /\ now = StartTime
  /\ ticks = 0
  /\ listCache = [ts |-> 0, data |-> Null]
  /\ detailCache = EmptyMap
  /\ recent = EmptyMap
  /\ emitted = 0
  /\ resp = [route |-> "none", status |-> 0, body |-> "none", atEmit |-> "none"]
  /\ hookLog = EmptyMap
  /\ unannounced = FALSE
  /\ calls = [r \in Reqs |-> IdleCall]
  /\ streamChatFn = "unloaded"
  /\ apiKey = FALSE
  /\ chat = IdleChat
  /\ ask = IdleAsk
  /\ aiAsk = IdleAiAsk
  /\ nl = IdleNl
  /\ client = IdleClient

\* The data layer with its notification path, one request at a time.
Solo == {"r1"}
OneId == {"40551"}

Next ==
  \/ Tick(HookDelays)
  \/ UpstreamChange
  \/ \E r \in Solo : FindEventsCall(r)
  \/ \E r \in Solo : ListRespond(r)
  \/ \E r \in Solo : FindEventsResume(r)
  \/ \E r \in Solo, id \in OneId : GetEventByIdCall(r, id)
  \/ \E r \in Solo : DetailRespond(r)
  \/ \E r \in Solo : GetEventByIdResume(r)
  \/ \E hdr \in Headers : Notify(hdr, OneBody)
  \/ AdminPing

Spec == Init /\ [][Next]_vars

\* Concurrent list requests against invalidations.
NextRace ==
  \/ Tick(Delays)
  \/ \E r \in Reqs : FindEventsCall(r)
  \/ \E r \in Reqs : ListRespond(r)
  \/ \E r \in Reqs : FindEventsResume(r)
  \/ AdminPing

SpecRace == Init /\ [][NextRace]_vars

\* Concurrent list requests while the upstream content changes.
NextOverlap ==
  \/ Tick(Delays)
  \/ UpstreamChange
  \/ \E r \in Reqs : FindEventsCall(r)
  \/ \E r \in Reqs : ListRespond(r)
  \/ \E r \in Reqs : FindEventsResume(r)

SpecOverlap == Init /\ [][NextOverlap]_vars

\* The webhook deliveries and their ledger, over a cache that requests fill.
NextHook ==
  \/ Tick(HookDelays)
  \/ \E r \in Solo : FindEventsCall(r)
  \/ \E r \in Solo : ListRespond(r)
  \/ \E r \in Solo : FindEventsResume(r)
  \/ \E hdr \in Headers, body \in Bodies : Webhook(hdr, body)
  \/ AdminPing

SpecHook == Init /\ [][NextHook]_vars

\* The webhook deliveries alone, with bodies whose keys meet.
NextLedger ==
  \/ Tick(HookDelays)
  \/ \E hdr \in Headers, body \in LedgerBodies : Delivery(hdr, body)

SpecLedger == Init /\ [][NextLedger]_vars

\* The two caches as time passes, one request at a time.
NextTtl ==
  \/ Tick(Delays)
  \/ \E r \in Solo : FindEventsCall(r)
  \/ \E r \in Solo : ListRespond(r)
  \/ \E r \in Solo : FindEventsResume(r)
  \/ \E r \in Solo, id \in Ids : GetEventByIdCall(r, id)
  \/ \E r \in Solo : DetailRespond(r)
  \/ \E r \in Solo : GetEventByIdResume(r)
  \/ AdminPing

SpecTtl == Init /\ [][NextTtl]_vars

\* One POST /ai/chat request, from the module load to the end of its response.
NextChat ==
  \/ LoadBridge
  \/ \E m \in Messages, l \in Limits : ChatRequest(m, l)
  \/ AiAskHandler
  \/ AiAskResume
  \/ ProxySettles
  \/ FetchSettles
  \/ ErrTextSettles
  \/ ChunkArrives
  \/ BodyEnds
  \/ BodyFails
  \/ TimerFires
  \/ AbortSettles

SpecChat == Init /\ [][NextChat]_vars

\* The same with the requests a browser's EventSource makes.
NextMethods ==
  \/ NextChat
  \/ \E m \in Messages \ {Undefined} : ChatGet(m)

SpecMethods == Init /\ [][NextMethods]_vars

\* One streamed answer, with the body of the language model's response on
\* record.
NextFeed ==
  \/ LoadBridge
  \/ \E m \in Messages, l \in Limits : ChatRequest(m, l)
  \/ FetchSettles
  \/ Feed
  \/ BodyEnds
  \/ BodyFails

SpecFeed == Init /\ [][NextFeed]_vars

\* The two language-model calls and their timers.  A timer that is set fires
\* unless it is cleared, and an aborted await rejects.
NextTimeout ==
  \/ LoadBridge
  \/ \E m \in Messages, l \in Limits : ChatRequest(m, l)
  \/ FetchSettles
  \/ ErrTextSettles
  \/ Drip
  \/ BodyEnds
  \/ BodyFails
  \/ TimerFires
  \/ AbortSettles
  \/ AskCall
  \/ AskFetchSettles
  \/ AskErrTextSettles
  \/ AskJsonSettles
  \/ AskTimerFires
  \/ AskAbortSettles

\* The clock of the assistant's runs advances by just under the list TTL.
AskDelays == {59000}

\* The two routes of the assistant, with the list cache and the clock.
NextAsk ==
  \/ LoadBridge
  \/ Tick(AskDelays)
  \/ \E m \in Messages, l \in Limits : AiAskPost(m, l)
  \/ AiAskHandler
  \/ AiAskResume
  \/ \E m \in Messages, l \in Limits : ChatRequest(m, l)
  \/ ProxySettles

SpecAsk == Init /\ [][NextAsk]_vars

\* The answers built, one after another.
NextAnswer ==
  \/ BuildAnswer

SpecAnswer == Init /\ [][NextAnswer]_vars

\* The messages read, one per run.
NextRead ==
  \/ Classify

SpecRead == Init /\ [][NextRead]_vars

\* Calls of findEvents one after another, as the list slot ages.
NextFind ==
  \/ Tick(AskDelays)
  \/ FindEvents
  \/ FindEventsReturn

SpecFind == Init /\ [][NextFind]_vars

NextShape == MapItem \/ MapDetail

SpecShape == Init /\ [][NextShape]_vars

\* One message to the assistant, beside a GET /api/events that fills the
\* list cache or fails to.
NextAssistant ==
  \/ FindEventsCall("r1")
  \/ ListRespond("r1")
  \/ FindEventsResume("r1")
  \/ AskAssistant
  \/ AssistantResume

SpecAssistant == Init /\ [][NextAssistant]_vars

\* The page in a browser, with the broadcasts of POST /admin/ping.
NextClient ==
  \/ AdminPing
  \/ Mount
  \/ \E ok \in BOOLEAN : PostsSettle(ok)
  \/ OnConnect
  \/ OnDisconnect
  \/ OnUpdated
  \/ DebounceFires
  \/ \E ok \in BOOLEAN : EventsSettle(ok)

\* A timer that is set fires and a request that was sent settles.
SpecClient ==
  /\ Init /\ [][NextClient]_vars
  /\ WF_vars(DebounceFires) /\ WF_vars(\E ok \in BOOLEAN : EventsSettle(ok))

\* The ledger when it holds more than 500 keys.
SweepBodies == {b \in LedgerBodies : b.id = JsStr(<<"7">>)}

NextSweep ==
  \/ Tick(HookDelays)
  \/ Flood
  \/ \E body \in SweepBodies : Delivery(WEBHOOK_SECRET, body)

SpecSweep == Init /\ [][NextSweep]_vars

SpecTimeout ==
  /\ Init /\ [][NextTimeout]_vars
  /\ WF_vars(TimerFires) /\ WF_vars(AbortSettles)
  /\ WF_vars(AskTimerFires) /\ WF_vars(AskAbortSettles)

----------------------------------------------------------------------------
(* The cache contract *)

ListCalls(R) == {r \in R : calls[r].op = "list"}
DetailCalls(R) == {r \in R : calls[r].op = "detail"}
Answered(r) == calls[r].pc = "done" /\ calls[r].status = 200

\* C1: a findEvents call made after an invalidation never returns data that
\* was obtained from upstream before that invalidation, whatever the
\* interleaving of calls, fetch completions and invalidations.
C1_NoPreInvalidationData ==
  \A r \in ListCalls(Reqs) :
    Answered(r) /\ calls[r].afterInv => ~calls[r].data.pre

\* C2: a findEvents or getEventById read issued when every upstream change has
\* been announced by a handled authentic delivery never returns data produced
\* before the latest change.
C2_ReadAfterDeliveryIsCurrent ==
  \A r \in Reqs :
    Answered(r) /\ calls[r].afterAnn => ~calls[r].data.old

\* C3: per key, the first authentic delivery is processed (both caches left
\* empty, one broadcast, answered received); a delivery less than 2 seconds
\* after the one before it is answered dropped and broadcasts nothing; a
\* delivery more than 2 seconds after the one before it is processed again.
C3_DedupeWindow ==
  \A k \in DOMAIN hookLog : \A i \in 1..Len(hookLog[k]) :
    LET e == hookLog[k][i]
        processed == e.out = "received" /\ e.cleared /\ e.sent = 1
    IN  /\ (i = 1 => processed)
        /\ (i > 1 /\ e.gap < 2000 => e.out = "dropped" /\ e.sent = 0)
        /\ (e.gap > 2000 => processed)

\* C3 witness: one key was delivered three times: processed, dropped within
\* the window, processed again after it.
C3_Witness ==
  \E k \in DOMAIN hookLog :
    /\ Len(hookLog[k]) >= 3
    /\ hookLog[k][1].out = "received"
    /\ hookLog[k][2].out = "dropped" /\ hookLog[k][2].gap < 2000
    /\ hookLog[k][3].out = "received" /\ hookLog[k][3].gap > 2000

\* C7: a findEvents call is served from the cache exactly when the slot holds
\* data younger than 60 s, and otherwise fetches; a getEventById call is served
\* from the cache exactly when the entry of its id is younger than 5 minutes,
\* and otherwise resolves it again; a successful re-fetch replaces the slot, or
\* the entry, with the fetched data stamped with the current time.
C7_TtlBoundary ==
  [][ \A r \in Reqs :
        /\ FindEventsCall(r) =>
              /\ (calls'[r].served = "cache")
                    <=> (listCache.data # Null /\ now - listCache.ts < 60000)
              /\ calls'[r].served = "cache" =>
                    calls'[r].pc = "done" /\ calls'[r].data = listCache.data
              /\ calls'[r].served # "cache" => calls'[r].pc = "fetch"
        /\ \A id \in Ids : GetEventByIdCall(r, id) =>
              /\ (calls'[r].served = "cache")
                    <=> (id \in DOMAIN detailCache
                           /\ now - detailCache[id].ts < 300000)
              /\ calls'[r].served = "cache" =>
                    calls'[r].pc = "done" /\ calls'[r].data = detailCache[id].data
              /\ calls'[r].served # "cache" => calls'[r].pc = "fetch"
        /\ FindEventsResume(r) /\ calls'[r].status = 200 =>
              listCache' = [ts |-> now, data |-> [calls[r].snap EXCEPT !.form = "mapped"]]
        /\ GetEventByIdResume(r) /\ calls'[r].status = 200 =>
              detailCache'[calls[r].id] =
                [ts |-> now, data |-> [calls[r].snap EXCEPT !.form = "record"]]
    ]_vars

\* C7 witness: a findEvents call finds the slot exactly 60 s old and is
\* fetching.
C7_Witness ==
  \E r \in Reqs :
    /\ calls[r].op = "list" /\ calls[r].pc = "fetch"
    /\ listCache.data # Null /\ now - listCache.ts = 60000

\* C8: GET /api/events/:id answers 404 when no candidate yields a record and
\* none failed, and 500 when no candidate yields a record and one failed.
C8_AbsentIs404 ==
  \A r \in DetailCalls(Reqs) :
    calls[r].pc = "done" /\ calls[r].served = "none" =>
      calls[r].status = (IF calls[r].upErr THEN 500 ELSE 404)

\* C9: a delivery whose X-Webhook-Secret is missing or wrong is answered 401
\* and leaves the ledger, both caches and the broadcast count as they were.
C9_UnauthorizedChangesNothing ==
  [][ \A hdr \in Headers \ {"devsecret123"} :
        Notify(hdr, OneBody) =>
          /\ resp'.status = 401
          /\ UNCHANGED <<recent, listCache, detailCache, emitted>>
    ]_vars

\* C9 witness: a 401 was answered while the ledger and both caches held
\* entries.
C9_Witness ==
  /\ resp.status = 401
  /\ DOMAIN recent # {} /\ listCache.data # Null /\ DOMAIN detailCache # {}

\* C10: a delivery answered dropped is answered with status 200, leaves both
\* caches as they were and broadcasts nothing.
C10_DroppedIsNoOp ==
  [][ Notify("devsecret123", OneBody) /\ resp'.body = "dropped" =>
        /\ resp'.status = 200
        /\ UNCHANGED <<listCache, detailCache, emitted>>
    ]_vars

\* C10 witness: a delivery was dropped while both caches held entries.
C10_Witness ==
  /\ resp.body = "dropped"
  /\ listCache.data # Null /\ DOMAIN detailCache # {}

\* C12: whatever the two caches hold, an invalidation leaves the list slot
\* empty with timestamp 0 and the detail map empty, and a second invalidation
\* right after it leaves them exactly so.
C12_InvalidateIdempotent ==
  [][ AdminPing =>
        LET c == [list |-> listCache, detail |-> detailCache]
            once == invalidateEventsCache(c)
            twice == invalidateEventsCache(once)
        IN  /\ listCache' = once.list /\ detailCache' = once.detail
            /\ once = [list |-> [ts |-> 0, data |-> Null], detail |-> EmptyMap]
            /\ twice = once
    ]_vars

\* C12 witness: a detail entry was cached and served, two invalidations have
\* run, the later of them after that, and both caches are empty.
C12_Witness ==
  /\ emitted = 2 /\ resp.route = "admin"
  /\ listCache = [ts |-> 0, data |-> Null] /\ DOMAIN detailCache = {}
  /\ \E r \in DetailCalls(Reqs) :
        Answered(r) /\ calls[r].served = "cache" /\ calls[r].data.pre

\* C13: on a detail miss getEventById asks wp/v2/posts first; after a response
\* without id and title, or a failure, it asks the next of wp/v2/event and
\* example/v1/events, in that order; on the first response with an id or a
\* title it asks no further candidate and stores the normalized record, stamped
\* now, under the id, replacing what was there; when the last candidate yields
\* none either it raises (the route answers an error status) and the detail
\* cache is left as it was.
C13_CandidatesInOrder ==
  [][ \A r \in Reqs :
        /\ \A id \in Ids :
              GetEventByIdCall(r, id) /\ calls'[r].served # "cache" =>
                calls'[r].pc = "fetch" /\ calls'[r].url = "wp/v2/posts"
        /\ GetEventByIdResume(r) =>
              IF calls[r].snap # Null
                THEN /\ calls'[r].pc = "done" /\ calls'[r].status = 200
                     /\ calls'[r].url = calls[r].url
                     /\ detailCache'[calls[r].id] =
                          [ts |-> now, data |-> [calls[r].snap EXCEPT !.form = "record"]]
                     /\ calls'[r].data = detailCache'[calls[r].id].data
                     /\ \A i \in DOMAIN detailCache \ {calls[r].id} :
                          i \in DOMAIN detailCache' /\ detailCache'[i] = detailCache[i]
                ELSE /\ UNCHANGED detailCache
                     /\ calls[r].url = "wp/v2/posts" =>
                          calls'[r].pc = "fetch" /\ calls'[r].url = "wp/v2/event"
                     /\ calls[r].url = "wp/v2/event" =>
                          calls'[r].pc = "fetch" /\ calls'[r].url = "example/v1/events"
                     /\ calls[r].url = "example/v1/events" =>
                          calls'[r].pc = "done" /\ calls'[r].status >= 400
    ]_vars

\* C13 witness: the first candidate yielded nothing, the second answered with
\* a record, and the entry it is about to replace has expired.
C13_Witness ==
  \E r \in DetailCalls(Reqs) :
    /\ calls[r].pc = "resp" /\ calls[r].snap # Null
    /\ calls[r].url = "wp/v2/event"
    /\ calls[r].id \in DOMAIN detailCache
    /\ now - detailCache[calls[r].id].ts >= 300000

\* C11: a step broadcasts at most one event-updated, and it broadcasts one
\* exactly when it is an invalidation (GET /admin/ping or a processed
\* delivery); the broadcast is emitted with both caches already empty, and they
\* are empty when the step ends.  No step empties a cache without a broadcast.
C11_InvalidateThenBroadcast ==
  [][ LET invalidation ==
            \/ AdminPing
            \/ \E hdr \in Headers, body \in Bodies :
                  Webhook(hdr, body) /\ resp'.body = "received"
          emptied ==
            /\ listCache.data # Null \/ DOMAIN detailCache # {}
            /\ listCache'.data = Null /\ DOMAIN detailCache' = {}
      IN  /\ emitted' \in {emitted, emitted + 1}
          /\ invalidation <=> emitted' = emitted + 1
          /\ emptied => emitted' = emitted + 1
          /\ emitted' = emitted + 1 =>
                /\ resp'.atEmit = "cleared"
                /\ listCache' = [ts |-> 0, data |-> Null]
                /\ DOMAIN detailCache' = {}
    ]_vars

\* C11 witness: two invalidations were broadcast, the second by the first
\* delivery of its key, and the caches are empty.
C11_Witness ==
  /\ emitted = 2 /\ resp.route = "webhook" /\ resp.body = "received"
  /\ resp.atEmit = "cleared" /\ listCache.data = Null
  /\ \E k \in DOMAIN hookLog : Len(hookLog[k]) = 1 /\ hookLog[k][1].sent = 1

----------------------------------------------------------------------------
(* The streaming contract *)

FramesOf(ev) == {i \in 1..Len(chat.frames) : chat.frames[i].ev = ev}
Succeeded == chat.pc = "done" /\ chat.exit \in {"sentinel", "finish", "eof"}
Failed == chat.pc = "done" /\ chat.exit \in {"nokey", "network", "http", "abort"}

\* C4: a successful /ai/chat stream holds exactly one hits frame, before every
\* token frame, and exactly one done frame, which is its last frame.
C4_HitsBeforeTokensThenDone ==
  Succeeded =>
    /\ Cardinality(FramesOf("hits")) = 1
    /\ \A i \in FramesOf("hits"), j \in FramesOf("token") : i < j
    /\ Cardinality(FramesOf("done")) = 1
    /\ Last(chat.frames).ev = "done"

\* C5: streamChat never invokes more than one final callback, and has invoked
\* exactly one when it returns: onDone after the [DONE] sentinel, a
\* finish_reason or the end of the body; onError after a missing key, a
\* non-2xx response, a network failure or an abort.
C5_OneFinalCallback ==
  /\ chat.doneCalls + chat.errCalls <= 1
  /\ chat.sc = "returned" => chat.doneCalls + chat.errCalls = 1
  /\ chat.exit \in {"sentinel", "finish", "eof"} =>
       chat.doneCalls = 1 /\ chat.errCalls = 0
  /\ chat.exit \in {"nokey", "network", "http", "abort"} =>
       chat.errCalls = 1 /\ chat.doneCalls = 0

\* C5 witness: streamChat returned on a finish_reason that was followed by more
\* lines in the same chunk, after forwarding a token.
C5_Witness ==
  /\ chat.sc = "returned" /\ chat.exit = "finish"
  /\ chat.full # <<>> /\ chat.doneCalls = 1

----------------------------------------------------------------------------
(* The bridge's reading of the body *)

IsToken(f) == f.ev = "token"

RECURSIVE Flat(_)
Flat(q) == IF q = <<>> THEN <<>> ELSE Head(q) \o Flat(Tail(q))

\* The text of the token frames among these frames, in their order.
TokenText(frames) ==
  LET toks == SelectSeq(frames, IsToken)
  IN  Flat([i \in 1..Len(toks) |-> toks[i].val])

\* The deltas the language model sent in these lines, up to its end signal.
RECURSIVE DeltasOf(_)
DeltasOf(lines) ==
  IF lines = <<>> THEN <<>>
  ELSE LET v == ParseNew(Head(lines))
       IN  IF v.kind = "sentinel" THEN <<>>
           ELSE (IF v.delta # "" THEN <<v.delta>> ELSE <<>>)
                  \o (IF v.fin THEN <<>> ELSE DeltasOf(Tail(lines)))

\* The lines of the body on record that have arrived whole.
WholeLines == Front(SplitLines(chat.body))

Reading == [IdleChat EXCEPT !.pc = "stream", !.sc = "body", !.timer = "armed"]

\* What the bridge makes of the body on record when it arrives as one chunk.
InOneChunk == OnChunk(streamChatFn, chat.body, Reading)

\* C15: the deltas handed to onToken so far, and whether an end signal was
\* read, are those of the same body arriving as one chunk, however the body
\* was cut into chunks, and so is the final text handed to onDone.
C15_ChunkingDoesNotMatter ==
  chat.body # <<>> =>
    /\ chat.full = InOneChunk.full
    /\ (chat.exit \in {"sentinel", "finish"}) <=> (InOneChunk.sc = "returned")
    /\ \A i \in FramesOf("done") : chat.frames[i].val = InOneChunk.full

\* One of these lines is [DONE] or carries a finish_reason.
HasEnd(lines) ==
  \E i \in 1..Len(lines) :
    ParseNew(lines[i]).kind = "sentinel" \/ ParseNew(lines[i]).fin

\* C16: with the part_000 bridge, once a line that is [DONE] or carries a
\* finish_reason has arrived, streamChat has returned after one onDone whose
\* text is the deltas up to and including that line's own, and the lines after
\* it have added no token; when the body ends with no such line, onDone gets
\* the text accumulated from all its lines.
C16_EndSignalCompletes ==
  streamChatFn = "part_000" /\ chat.sc \in {"body", "returned"} =>
    /\ HasEnd(WholeLines) =>
          /\ chat.sc = "returned" /\ chat.exit \in {"sentinel", "finish"}
          /\ chat.doneCalls = 1 /\ chat.errCalls = 0
          /\ chat.full = DeltasOf(WholeLines)
          /\ Last(chat.frames) = Frame("done", DeltasOf(WholeLines))
    /\ chat.exit \in {"sentinel", "finish"} => HasEnd(WholeLines)
    /\ chat.exit = "eof" =>
          /\ ~HasEnd(WholeLines)
          /\ chat.doneCalls = 1 /\ chat.errCalls = 0
          /\ chat.full = DeltasOf(WholeLines)
          /\ Last(chat.frames) = Frame("done", chat.full)

\* C16 witness: a line with the delta y and a finish_reason was followed in
\* its chunk by a line with the delta m; the stream ended with the text y.
C16_Witness ==
  /\ streamChatFn = "part_000" /\ chat.exit = "finish"
  /\ WholeLines = << <<"YF">>, <<"M">> >>
  /\ chat.frames = <<Frame("hello", <<>>), Frame("token", <<"y">>),
                     Frame("done", <<"y">>)>>

\* Lines that are empty, not JSON, a part of a JSON line, JSON followed by
\* other text, or JSON with an empty delta.
JunkLines == {<<>>, <<"G">>, <<"x1">>, <<"x2">>, <<"Y", "G">>, <<"E">>}

\* C17: with either bridge, wherever streamChat is in reading a body, a line
\* that is not JSON or carries no delta changes nothing: no onToken, no
\* onError, no end of the stream; and the valid lines after it hand their
\* deltas to onToken in their order, as they do without it.
C17_JunkLineSkipped ==
  chat.sc = "body" =>
    \A l \in JunkLines :
      LET after == Lines(streamChatFn, <<l, <<"Y">>, l, <<"x1", "x2">>>>, chat)
      IN  /\ Step(streamChatFn, l, chat) = chat
          /\ after = Lines(streamChatFn, << <<"Y">>, <<"x1", "x2">> >>, chat)
          /\ after.full = chat.full \o <<"y", "x">>
          /\ after.frames = chat.frames
                \o <<Frame("token", <<"y">>), Frame("token", <<"x">>)>>
          /\ after.errCalls = 0 /\ after.doneCalls = 0 /\ after.sc = "body"

\* C17 witness: the older bridge read a line that is not JSON and then a
\* valid line, whose delta it delivered, and goes on reading.
C17_Witness ==
  /\ streamChatFn = "llm.js" /\ chat.sc = "body"
  /\ WholeLines = << <<"G">>, <<"Y">> >>
  /\ chat.full = <<"y">> /\ chat.errCalls = 0 /\ ~chat.ended

----------------------------------------------------------------------------
(* The timeouts *)

\* C18: a call of streamChat or askLLM that is waiting for the language model
\* comes to an end; one whose timer fired ends in an error (onError, or a
\* rejection) and delivers no result; and a call that has ended has no timer
\* left that could fire.
C18_TimeoutEndsTheCall ==
  /\ [](/\ chat.sc = "returned" => chat.timer \in {"none", "cleared"}
        /\ chat.aborted /\ chat.sc = "returned" =>
              chat.errCalls = 1 /\ chat.doneCalls = 0
        /\ ask.pc = "done" => ask.timer \in {"none", "cleared"}
        /\ ask.aborted /\ ask.pc = "done" => ask.outcome = "rejected")
  /\ (Awaiting ~> chat.sc = "returned")
  /\ (AskAwaiting ~> ask.pc = "done")

\* C18 witness: both calls were aborted by their timers, streamChat after it
\* had delivered a token, and both have ended with their timers cleared.
C18_Witness ==
  /\ chat.aborted /\ chat.sc = "returned" /\ chat.full # <<>>
  /\ chat.timer = "cleared" /\ chat.errCalls = 1
  /\ ask.aborted /\ ask.pc = "done" /\ ask.timer = "cleared"
  /\ ask.outcome = "rejected"

----------------------------------------------------------------------------
(* The requests without a message *)

BlankMessages == {Undefined, "", " "}

\* C19: a POST /ai/ask or POST /ai/chat whose message is missing, empty or
\* blank is answered 400 with nothing else done: the caches are not read or
\* written, nothing is fetched, no language-model call is started, and
\* /ai/chat sets no event-stream header and writes no frame.
C19_BlankMessageIs400 ==
  [][/\ (aiAsk.body.message \in BlankMessages /\ AiAskHandler) =>
          /\ aiAsk'.pc = "done" /\ aiAsk'.status = 400
          /\ aiAsk'.payload.error = "message required"
          /\ aiAsk'.cacheReads = 0 /\ aiAsk'.fetches = 0
          /\ UNCHANGED <<dataVars, chat, ask>>
     /\ \A m \in BlankMessages, l \in Limits : ChatRequest(m, l) =>
          /\ chat'.pc = "done" /\ chat'.json = 400
          /\ chat'.payload.error = "message required"
          /\ chat'.ctype # "event-stream" /\ chat'.frames = <<>>
          /\ chat'.sc = "none" /\ chat'.timer = "none"
          /\ UNCHANGED <<dataVars, aiAsk, ask>>]_vars

\* C19 witness: with a bridge loaded and a list in the cache, a blank message
\* was answered 400 on both routes.
C19_Witness ==
  /\ streamChatFn = "part_000" /\ listCache.data # Null
  /\ chat.pc = "done" /\ chat.json = 400
  /\ aiAsk.pc = "done" /\ aiAsk.body.message = " " /\ aiAsk.status = 400

----------------------------------------------------------------------------
(* The fallback of /ai/chat *)

\* C20: when /ai/chat has no bridge and its own request to /ai/ask is
\* answered, the status and the JSON body it sends are those that /ai/ask
\* gives to the body /ai/chat received, for the rows findEvents came back
\* with, and no frame is written.
C20_FallbackAnswersAsAsk ==
  [][(ProxySettles /\ chat'.via = "ask") =>
       /\ [status |-> chat'.json, payload |-> chat'.payload]
            = aiAskAnswer(chat.req, aiAsk.found)
       /\ chat'.frames = <<>> /\ chat'.ctype = "json"]_vars

----------------------------------------------------------------------------
(* The answer sentence and the hits *)

\* C21: the sentence of an answer is given by the facets, the total and the
\* shown records: for no event, that none was found, with " for " and the
\* facets when there are facets; otherwise "I found", the total, "event" with
\* an s unless the total is 1, the facets joined by single spaces after
\* "for", and "Showing up to N." with N the number of records shown, which is
\* the number of hits.
C21_AnswerSentence ==
  nl.op = "answer" =>
    LET J == Join(nl.parts, <<" ">>)
    IN  IF nl.total = 0
          THEN nl.answer =
                 NoneFound \o (IF nl.parts = <<>> THEN <<>> ELSE <<" ", "f", "o", "r", " ">> \o J)
                   \o <<".">>
          ELSE /\ Len(nl.hits) = Len(nl.shown)
               /\ \E gap \in {<<" ", "f", "o", "r", " ">>, <<" ", "f", "o", "r", " ", " ">>} :
                    nl.answer =
                      Found(nl.total)
                        \o (IF nl.parts = <<>> THEN <<>> ELSE gap \o J)
                        \o ShowingUpTo(Len(nl.shown))

\* C22: the hits of an answer are the shown records, one for one and in their
\* order, each with an id that is a string and a title and nothing else; there
\* are as many as records shown, no more than the limit and no more than the
\* total.
C22_HitsAreShown ==
  nl.op = "answer" =>
    /\ Len(nl.hits) = Len(nl.shown)
    /\ Len(nl.hits) <= nl.limit /\ Len(nl.hits) <= nl.total
    /\ \A i \in 1..Len(nl.hits) :
         /\ DOMAIN nl.hits[i] = {"id", "title"}
         /\ nl.hits[i].id = JsStr(Str(i))
         /\ nl.hits[i].title = UpstreamItem(i).title

\* C22 witness: /ai/ask with the builtin helpers answered with 11 of 12 records.
C22_Witness ==
  /\ nl.op = "answer" /\ nl.impl = "index.js"
  /\ nl.total = 12 /\ nl.limit = 11 /\ Len(nl.hits) = 11

----------------------------------------------------------------------------
(* The reading of a message *)

\* The table of categories an implementation reads by; the builtin one has
\* the category names alone.
TableOf(impl) ==
  CASE impl = "ai.js" -> CATEGORY_KEYWORDS
    [] impl = "part_004" -> CATEGORY_SYNONYMS
    [] impl = "index.js" ->
         [i \in DOMAIN builtinCategories |->
            [cat |-> builtinCategories[i], kws |-> <<builtinCategories[i]>>]]

\* A row of the table has its name or one of its synonyms in the text.
Occurs(row, text) ==
  LET t == toLowerCase(normalizeText(text))
  IN  Includes(t, row.cat) \/ \E k \in DOMAIN row.kws : Includes(t, row.kws[k])

\* C23: every reading reports at most one category; it reports one exactly
\* when a row of the table occurs in the text, and then the first such row;
\* "what comedy is on" is read as comedy with no name and no date label.
C23_OneCategory ==
  nl.op = "read" =>
    LET table == TableOf(nl.impl)
        cats == nl.reading.cats
    IN  /\ Len(cats) <= 1
        /\ cats = <<>> <=> \A i \in DOMAIN table : ~Occurs(table[i], nl.raw)
        /\ cats # <<>> =>
             \E i \in DOMAIN table :
               /\ table[i].cat = cats[1]
               /\ \A h \in 1..(i - 1) : ~Occurs(table[h], nl.raw)
        /\ nl.raw = <<"w", "h", "a", "t", " ", "c", "o", "m", "e", "d", "y", " ", "i", "s", " ", "o", "n">> =>
             /\ cats = << <<"c", "o", "m", "e", "d", "y">> >>
             /\ nl.reading.name = <<>> /\ nl.reading.dates = <<>>

\* The message holds The Maccabees between straight or curly double quotes.
HasQuotedName(raw) ==
  Includes(raw, <<"dquote", "T", "h", "e", " ", "M", "a", "c", "c", "a", "b", "e", "e", "s", "dquote">>) \/ Includes(raw, <<"ldquo", "T", "h", "e", " ", "M", "a", "c", "c", "a", "b", "e", "e", "s", "rdquo">>)

\* C24: a message with a text between straight or curly double quotes is
\* read with that text as its name filter, whatever else the message holds
\* (letter case aside, as the filter ignores it); 'events about "The
\* Maccabees"' is read with the name The Maccabees and no category.
C24_QuotedNameWins ==
  nl.op = "read" /\ HasQuotedName(nl.raw) =>
    /\ toLowerCase(nl.reading.name) = <<"t", "h", "e", " ", "m", "a", "c", "c", "a", "b", "e", "e", "s">>
    /\ nl.raw = <<"e", "v", "e", "n", "t", "s", " ", "a", "b", "o", "u", "t", " ", "dquote", "T", "h", "e", " ", "M", "a", "c", "c", "a", "b", "e", "e", "s", "dquote">> => nl.reading.cats = <<>>

\* C25: askAI takes the whole normalized message as the name filter when the
\* message has no quoted name and no about, called or named phrase, holds no
\* what's-on phrase and no category keyword, and is not empty.
C25_FreeTextIsTheName ==
  (/\ nl.op = "read" /\ nl.impl = "ai.js"
   /\ ~HasQuotedName(nl.raw)
   /\ \A kw \in {<<"a", "b", "o", "u", "t">>, <<"c", "a", "l", "l", "e", "d">>, <<"n", "a", "m", "e", "d">>} : ~Includes(toLowerCase(nl.raw), kw)
   /\ ~nl.reading.whatsOn /\ nl.reading.cats = <<>>
   /\ nl.reading.text # <<>>)
  => nl.reading.name = nl.reading.text

----------------------------------------------------------------------------
(* The assistant's answer *)

\* C26: when askAI has read no category, no name and no what's-on intent in a
\* message, it returns the guidance response with no hits, whatever the list
\* cache holds and whatever the upstream answers.
C26_GuidanceWhateverTheState ==
  (/\ nl.op = "ask" /\ nl.impl = "ai.js" /\ nl.pc = "done"
   /\ ~nl.reading.whatsOn /\ nl.reading.cats = <<>> /\ nl.reading.name = <<>>)
  => nl.out.kind \in {"ask me", "guidance"} /\ nl.out.hits = <<>>

\* C27: a relative date phrase added to a message changes neither the total
\* nor the hits the message is answered with from the same list, under askAI
\* and under /ai/ask with classifyQuery.
C27_DateLabelIsSurfaceOnly ==
  (/\ nl.op = "ask" /\ nl.impl \in {"ai.js", "part_004"} /\ nl.pc = "done"
   /\ nl.out.kind \in {"guidance", "answer"}
   /\ detectDateLabel(normalizeText(nl.raw)) = <<>>)
  => \A i \in DOMAIN DateLabels :
       LET o == outcomeOf(nl.impl, nl.raw \o <<" ">> \o DateLabels[i], Pool)
       IN  o.total = nl.out.total /\ o.hits = nl.out.hits

----------------------------------------------------------------------------
(* The records returned for any upstream shape *)

IsString(v) == v.t = "string"
Defined(v) == v.t # "undefined"

\* C28: every record findEvents or getEventById returns has a non-empty
\* string as id and a string as title, and none of its fields is undefined.
C28_RecordsAreWellFormed ==
  /\ nl.op = "item" =>
       /\ IsString(nl.item.id) /\ nl.item.id.s # <<>>
       /\ IsString(nl.item.title)
  /\ nl.op = "detail" =>
       /\ IsString(nl.detail.id) /\ nl.detail.id.s # <<>>
       /\ IsString(nl.detail.title)
       /\ \A f \in DOMAIN nl.detail : Defined(nl.detail[f])

----------------------------------------------------------------------------
(* What findEvents returns *)

\* The places of the full list whose title contains q, whatever the case.
Hits(q) ==
  {i \in 1..MaxRows :
     q = <<>> \/ Includes(toLowerCase(Title(i)), toLowerCase(q))}
\* The k-th of them in the order of the list.
NthHit(q, k) == CHOOSE i \in Hits(q) : Cardinality({j \in Hits(q) : j <= i}) = k

\* C29: findEvents({limit, q}) returns the first limit records, in the order
\* of the upstream list, of those records of the full list whose title
\* contains q whatever the case (all of them for an empty q), from the list
\* slot as from a fetch, whatever limit and q the call that filled the slot
\* had.
C29_FilteredThenSliced ==
  (nl.op = "find" /\ nl.pc = "done" /\ nl.impl \in {"cache", "upstream"})
  => /\ Len(nl.rows) = Min(nl.limit, Cardinality(Hits(nl.raw)))
     /\ \A k \in 1..Len(nl.rows) :
          /\ nl.rows[k].id = JsStr(Str(NthHit(nl.raw, k)))
          /\ nl.rows[k].title = JsStr(Title(NthHit(nl.raw, k)))

\* A call served from the slot that a call with another q and a smaller
\* limit filled; it has hits beyond that limit, and more hits than its own.
C29_Witness ==
  /\ nl.op = "find" /\ nl.pc = "done" /\ nl.impl = "cache"
  /\ nl.filler.q # nl.raw /\ nl.filler.q # <<>> /\ nl.filler.limit < nl.limit
  /\ nl.raw # <<>> /\ nl.raw # toLowerCase(nl.raw)
  /\ Len(nl.rows) = nl.limit /\ nl.limit < Cardinality(Hits(nl.raw))

----------------------------------------------------------------------------
(* A list fetch under way while the cache is invalidated *)

\* C30: a list fetch that has its answer commits it to the slot when it
\* resumes, stamped with the time of that moment, whether or not the cache
\* was invalidated while it was under way; data leaves the slot only by an
\* invalidation, which empties it whole; and the slot holds either no data
\* and the stamp 0 or data and the stamp of its commit.
C30_InFlightFetchCommits ==
  [][/\ \A r \in Reqs :
          (/\ calls[r].op = "list" /\ calls[r].pc = "resp" /\ ~calls[r].upErr
           /\ calls'[r].pc = "done")
          => listCache' = [ts |-> now', data |-> Mapped(calls[r].snap)]
     /\ (listCache.data # Null /\ listCache'.data = Null)
          => emitted' = emitted + 1 /\ listCache' = [ts |-> 0, data |-> Null]
     /\ listCache'.data = Null <=> listCache'.ts = 0]_vars

\* The slot holds the answer of a fetch that was under way when the cache
\* was invalidated.
C30_Witness ==
  /\ listCache.data # Null /\ listCache.data.pre
  /\ \E r \in Reqs :
       /\ calls[r].op = "list" /\ calls[r].pc = "done" /\ calls[r].served = "upstream"
       /\ ~calls[r].afterInv /\ calls[r].data = listCache.data

----------------------------------------------------------------------------
(* A list fetch that fails *)

\* C31: when the upstream fetch of a findEvents that missed the list cache
\* fails, GET /api/events answers 500 with no data, what the slot holds is
\* not served, and the slot is left as it was.
C31_FailedFetchIs500 ==
  [][\A r \in Reqs :
       (/\ calls[r].op = "list" /\ calls[r].pc = "resp" /\ calls[r].upErr
        /\ calls'[r].pc = "done")
       => /\ calls'[r].status = 500 /\ calls'[r].data = Null
          /\ calls'[r].served = "none"
          /\ listCache' = listCache]_vars

\* A request answered 500 while the slot holds a list that has expired.
C31_Witness ==
  \E r \in Reqs :
    /\ calls[r].op = "list" /\ calls[r].pc = "done" /\ calls[r].status = 500
    /\ calls[r].data = Null
    /\ listCache.data # Null /\ now - listCache.ts >= TTL_LIST_MS

----------------------------------------------------------------------------
(* The methods of /ai/chat *)

\* C32: a GET of /ai/chat with a message is served as a POST with that
\* message is: with the event stream that starts with the hello frame, or
\* with the JSON of the fallback; a blank message is answered 400.
C32_GetIsServedAsPost ==
  (chat.method = "GET" /\ chat.pc = "done")
  => IF Trim(chat.message) = ""
       THEN chat.json = 400 /\ chat.ctype = "json"
       ELSE \/ chat.ctype = "event-stream" /\ chat.frames # <<>>
                 /\ chat.frames[1] = Frame("hello", <<>>)
            \/ chat.ctype = "json" /\ chat.via \in {"ask", "catch"}

----------------------------------------------------------------------------
(* What the smoke test asserts of the records *)

\* .f of a record as the test's jq reads it: null for a field it has not.
Field(rec, f) == IF f \in DOMAIN rec THEN rec[f] ELSE JsNull
\* .f != null, and (.f | length > 0)
NotNull(v) == v.t \notin {"null", "undefined"}
HasLength(v) == v.t = "string" /\ v.s # <<>>

\* C33: the record of GET /api/events/:id has the id asked for, a date that
\* is not null and a venue that is not empty, and so has every record of
\* the list of GET /api/events.
C33_SmokeAssertions ==
  /\ nl.op = "detail" =>
       /\ Field(nl.detail, "id") = JsStr(<<"7">>)
       /\ NotNull(Field(nl.detail, "date"))
       /\ HasLength(Field(nl.detail, "venue"))
  /\ nl.op = "item" =>
       /\ NotNull(Field(nl.item, "date"))
       /\ HasLength(Field(nl.item, "venue"))

----------------------------------------------------------------------------
(* The ledger of the webhook *)

\* The key of a logged delivery, as the handler's template makes it.
KeyText(e) ==
  String(e.id) \o <<":">>
    \o (IF e.action = JsUndef THEN <<"u", "p", "d", "a", "t", "e", "d">> ELSE String(e.action))

\* C34: an authentic delivery is dropped only if an earlier delivery with
\* the same key text was seen less than 2 seconds before it; deliveries
\* whose keys differ do not suppress each other.
C34_OnlyTheSameKeySuppresses ==
  \A k \in DOMAIN hookLog : \A i \in 1..Len(hookLog[k]) :
    LET e == hookLog[k][i]
    IN  /\ KeyText(e) = k
        /\ e.out = "dropped" =>
              \E j \in 1..(i - 1) :
                /\ KeyText(hookLog[k][j]) = KeyText(e)
                /\ e.at - hookLog[k][j].at < 2000

\* Two deliveries with different keys were processed at the same moment,
\* and a third was dropped for a delivery whose id and action are not its
\* own but make the same key.
C34_Witness ==
  \E k1 \in DOMAIN hookLog, k2 \in DOMAIN hookLog :
    /\ k1 # k2
    /\ hookLog[k1][1].out = "received" /\ hookLog[k2][1].out = "received"
    /\ hookLog[k1][1].at = hookLog[k2][1].at
    /\ Len(hookLog[k1]) = 2 /\ hookLog[k1][2].out = "dropped"
    /\ hookLog[k1][2].id # hookLog[k1][1].id

\* C35: a delivery is processed exactly when it is the first of its key or
\* comes 2 seconds or more after the delivery of that key before it,
\* processed or dropped; so of deliveries each less than 2 seconds after
\* the one before, only the first is processed.
C35_WindowSlides ==
  \A k \in DOMAIN hookLog : \A i \in 1..Len(hookLog[k]) :
    LET e == hookLog[k][i]
        processed == e.out = "received" /\ e.cleared /\ e.sent = 1
        dropped == e.out = "dropped" /\ e.sent = 0
        quiet == i = 1 \/ e.at - hookLog[k][i - 1].at >= 2000
    IN  /\ processed \/ dropped
        /\ processed <=> quiet

\* Three deliveries of a key a second apart: the first processed, the next
\* two dropped, the last of them 2 seconds after the one processed.
C35_Witness ==
  \E k \in DOMAIN hookLog :
    /\ Len(hookLog[k]) = 3
    /\ hookLog[k][1].out = "received"
    /\ hookLog[k][2].out = "dropped" /\ hookLog[k][2].at = hookLog[k][1].at + 1000
    /\ hookLog[k][3].out = "dropped" /\ hookLog[k][3].at = hookLog[k][1].at + 2000

----------------------------------------------------------------------------
(* Concurrent list fetches *)

\* C36: a findEvents call that finds the slot empty or expired starts a
\* fetch of its own, also while another call's fetch is under way; and each
\* fetch that resumes with an answer puts it into the slot over whatever is
\* there, so that the slot holds the answer of the fetch that resumed last.
C36_LastCompletedFetchWins ==
  [][\A r \in Reqs :
       /\ (FindEventsCall(r) /\ ~ListFresh) => calls'[r].pc = "fetch"
       /\ (/\ calls[r].op = "list" /\ calls[r].pc = "resp" /\ ~calls[r].upErr
           /\ calls'[r].pc = "done")
            => /\ listCache'.data = Mapped(calls[r].snap)
               /\ calls'[r].data = listCache'.data]_vars

\* The slot holds an answer the upstream has replaced, over the current
\* answer that another call had fetched and stored before.
C36_Witness ==
  /\ listCache.data # Null /\ listCache.data.old
  /\ \E r \in Reqs, s \in Reqs :
       /\ r # s
       /\ calls[r].pc = "done" /\ calls[r].served = "upstream"
       /\ calls[r].data = listCache.data
       /\ calls[s].pc = "done" /\ calls[s].served = "upstream"
       /\ ~calls[s].data.old

----------------------------------------------------------------------------
(* The end of a streamed answer *)

Terminal(f) == f.ev \in {"done", "error"}

\* C37: a streamed /ai/chat response starts with the hello frame; once it is
\* closed it holds one done or error frame, which is its last, and no frame
\* is added to it; and every streamed response is closed in the end, the
\* language model finishing, failing or being aborted by the timer.
C37_StreamIsClosedOnce ==
  /\ [](chat.ctype = "event-stream" =>
          /\ chat.frames # <<>> /\ chat.frames[1] = Frame("hello", <<>>)
          /\ Len(SelectSeq(chat.frames, Terminal)) <= 1
          /\ chat.ended <=> Len(SelectSeq(chat.frames, Terminal)) = 1
          /\ chat.ended => Terminal(chat.frames[Len(chat.frames)]))
  /\ [][chat.ended => chat'.frames = chat.frames /\ chat'.ended]_vars
  /\ (chat.ctype = "event-stream" ~> chat.ended /\ chat.sc = "returned")

\* The timer ended a stream that had only its hello frame.
C37_Witness ==
  /\ chat.ctype = "event-stream" /\ chat.ended /\ chat.exit = "abort"
  /\ chat.timer = "cleared"
  /\ chat.frames = <<Frame("hello", <<>>), Frame("error", <<>>)>>

-----------------------------------------------------------------------------
(* The page after a notification *)

\* C38: after the page receives an event-updated notification it sends a
\* GET /api/events that starts after the notification, also when another
\* such request is under way at that moment, so that once it has come to
\* rest the list it shows is not older than the last notification (a failed
\* request aside).
C38_RefetchAfterNotification ==
  client.owed ~> ~client.owed

-----------------------------------------------------------------------------
(* web/src/components/Chat.jsx: the streaming client *)

\* obj.k in JavaScript: undefined for a property the object has not.
Prop(obj, k) == IF k \in DOMAIN obj THEN obj[k] ELSE JsUndef

\* index.js 234-249: what the handler writes for a frame, as an EventSource
\* reads it: the name of the event ("message" when no event line is written)
\* and the parsed JSON of the data line.
Wire(f) ==
  CASE f.ev = "hello" -> [event |-> "hello", data |-> [ok |-> JsObj]]
    [] f.ev = "token" -> [event |-> "message", data |-> [token |-> JsStr(f.val)]]
    [] f.ev = "done" -> [event |-> "done", data |-> [text |-> JsStr(f.val)]]
    [] f.ev = "error" -> [event |-> "error", data |-> [error |-> JsStr(f.val)]]

\* Chat.jsx 36-38: the state startSSE leaves; `messages` holds what was added
\* after the user's own message.
StartSSE ==
  [streamText |-> <<>>, results |-> "none", loading |-> TRUE, closed |-> FALSE,
   messages |-> <<>>, fallback |-> FALSE]

\* Chat.jsx 40-51
onmessage(st, data) ==
  IF Prop(data, "type") = JsStr(<<"t", "e", "x", "t">>)
  THEN [st EXCEPT !.streamText =
          @ \o String(Or(Prop(data, "delta"), JsStr(<<>>)))]
  ELSE IF Prop(data, "type") = JsStr(<<"h", "i", "t", "s">>)
  THEN [st EXCEPT !.results = "hits"]
  ELSE st

\* Chat.jsx 53-59
ondone(st) ==
  [st EXCEPT !.closed = TRUE,
             !.messages = IF st.streamText # <<>>
                          THEN Append(@, [role |-> "assistant",
                                          text |-> st.streamText])
                          ELSE @,
             !.streamText = <<>>,
             !.loading = FALSE]

\* Chat.jsx 61-68
onerror(st) ==
  [st EXCEPT !.closed = TRUE, !.loading = FALSE, !.fallback = TRUE]

\* One event of the stream, dispatched to its listener; none after close().
Dispatch(st, w) ==
  IF st.closed THEN st
  ELSE CASE w.event = "message" -> onmessage(st, w.data)
         [] w.event = "done" -> ondone(st)
         [] w.event = "error" -> onerror(st)
         [] OTHER -> st

\* The client after these frames, in their order.
RECURSIVE Heard(_)
Heard(frames) ==
  IF frames = <<>> THEN StartSSE
  ELSE Dispatch(Heard(SubSeq(frames, 1, Len(frames) - 1)),
                Wire(frames[Len(frames)]))

\* C39: every token frame the server writes is appended by the client to its
\* stream buffer, and when the done frame has arrived the assistant message
\* the client shows is the text of the done frame.
C39_ClientShowsTheAnswer ==
  /\ \A i \in FramesOf("token") :
       Heard(SubSeq(chat.frames, 1, i)).streamText =
         Heard(SubSeq(chat.frames, 1, i - 1)).streamText \o chat.frames[i].val
  /\ chat.frames # <<>> /\ Last(chat.frames).ev = "done" =>
       Heard(chat.frames).messages =
         <<[role |-> "assistant", text |-> Last(chat.frames).val]>>

-----------------------------------------------------------------------------
(* The sweep of the ledger *)

\* The key of the authentic delivery this step handles, if it handles one.
Handled(k) ==
  /\ k \in DOMAIN hookLog'
  /\ k \notin DOMAIN hookLog \/ hookLog'[k] # hookLog[k]

\* C40: a delivery sweeps the ledger only when its insert leaves more than
\* 500 keys; the sweep removes exactly the entries last seen more than 4
\* seconds before and never the key just set; and the delivery is dropped
\* exactly when the delivery before it of the same key, swept since or not,
\* was less than 2 seconds before.
C40_SweepIsHarmless ==
  [][\A k \in DOMAIN hookLog' : Handled(k) =>
       LET set == MapSet(recent, k, now)
           old == {x \in DOMAIN set : now - set[x] > 4000}
           log == hookLog'[k]
           n == Len(log)
       IN  /\ Cardinality(DOMAIN set) <= 500 => recent' = set
           /\ Cardinality(DOMAIN set) > 500 =>
                /\ DOMAIN recent' = DOMAIN set \ old
                /\ \A x \in DOMAIN recent' : recent'[x] = set[x]
           /\ k \in DOMAIN recent' /\ recent'[k] = now
           /\ log[n].out = "dropped" <=>
                n > 1 /\ log[n].at - log[n - 1].at < 2000]_vars

\* A duplicate's insert swept the burst and another key out of the ledger:
\* it was dropped all the same and its own key is in the ledger.
C40_Witness ==
  /\ \E k \in DOMAIN hookLog : k \notin DOMAIN recent
  /\ FloodKeys \cap DOMAIN recent = {}
  /\ \E k \in DOMAIN hookLog \cap DOMAIN recent :
       /\ Len(hookLog[k]) = 2
       /\ hookLog[k][2].out = "dropped"
       /\ recent[k] = now

====
